---- MODULE Spec2Model ----
(***************************************************************************)
(* Model of the BER codec of asn1-ts (source/codecs/ber.ts): the TLV       *)
(* parser BERElement.fromBytes, the emitter BERElement.toBytes and the     *)
(* sequence accessors built on them, the getters of the string and scalar  *)
(* types, and of CERElement (test/ber/constructed.js): encode, fromSequence,*)
(* fromSet and inner.  Octets are the integers 0..255, buffers are         *)
(* sequences of octets (index i of the source is i+1 here).                *)
(***************************************************************************)
EXTENDS Integers, Sequences, FiniteSets, TLC

VARIABLES
    pc,                        \* position of the driver: which call ran last
    elem,                      \* the element under test (this of toBytes and the accessors)
    bytes,                     \* the buffer made by toBytes / handed to fromBytes
    fresh,                     \* the element fromBytes is called on
    ret,                       \* outcome of the last call: error kind and return value
    children,                  \* the elements handed to the sequence setter
    got,                       \* the elements returned by the sequence getter
    length,                    \* value.length seen by the length emitter of toBytes
    lengthOctets,              \* length octets emitted for it
    lengthEncodingPreference,  \* BERElement.lengthEncodingPreference (static)
    input,                     \* what the element under test was made from
    output,                    \* the value returned by the last getter
    runtime                    \* the global the text accessors find: TextEncoder or Buffer

vars == <<pc, elem, bytes, fresh, ret, children, got, length, lengthOctets,
          lengthEncodingPreference, input, output, runtime>>

----------------------------------------------------------------------------
(* Bounds of the model *)

\* longest input buffer handed to fromBytes
MaxBufLen == 6

\* longest value of an element whose octets are enumerated
MaxValueLen == 2

\* most elements handed to the sequence setter
MaxChildren == 2

\* every value length up to this one is handed to the length emitter
MaxProbedLength == 300

----------------------------------------------------------------------------
(* Enumerations of values.ts, as the numbers the source shifts into octets *)

universal == 0
application == 1
context == 2
private == 3

primitive == 0
constructed == 1

endOfContent == 0

definite == 0
indefinite == 1

nestingRecursionLimit == 5

----------------------------------------------------------------------------
(* JavaScript arithmetic *)

Pow2(n) == 2 ^ n

\* x << k: the low 32 - k bits of x moved up by k, read as a signed 32-bit
\* integer (computed without leaving the signed 32-bit range)
ShiftLeft(x, k) ==
    LET w == Pow2(32 - k)
        lo == x % w
    IN  IF lo >= w \div 2 THEN (lo - w) * Pow2(k) ELSE lo * Pow2(k)

\* (octet & 0b10000000) as a truth value
HighBit(octet) == octet >= 128

Max(a, b) == IF a >= b THEN a ELSE b

\* Uint8Array.prototype.slice(from, to) for 0 <= from: offsets are 0-based,
\* to is exclusive and clamped to the length
Slice(s, from, to) ==
    LET hi == IF to > Len(s) THEN Len(s) ELSE to
    IN  IF hi <= from THEN << >> ELSE SubSeq(s, from + 1, hi)

----------------------------------------------------------------------------
(* Elements *)

\* new BERElement(): universal, primitive, endOfContent, empty value
NewBERElement ==
    [tagClass |-> universal, construction |-> primitive,
     tagNumber |-> endOfContent, value |-> << >>, recursionCount |-> 0]

\* outcome of a call that threw: the fields assigned so far stay assigned
Throw(this, kind, maxIndex) ==
    [kind |-> kind, n |-> 0, el |-> this, maxIndex |-> maxIndex]

\* outcome of a call that returned n
Return(this, n, maxIndex) ==
    [kind |-> "ok", n |-> n, el |-> this, maxIndex |-> maxIndex]

\* the test that ends the scan of an indefinite-length value
IsEndOfContent(child) ==
    /\ child.tagClass = universal
    /\ child.construction = primitive
    /\ child.tagNumber = endOfContent
    /\ Len(child.value) = 0

----------------------------------------------------------------------------
(* BERElement.fromBytes *)

RECURSIVE fromBytes(_, _), fromBytesLength(_, _, _, _), ScanChildren(_, _, _)

\* the loop that looks for the end of the encoded tag number
RECURSIVE TagScan(_, _, _)
TagScan(buf, cursor, limit) ==
    IF cursor < limit
    THEN IF HighBit(buf[cursor + 1]) THEN TagScan(buf, cursor + 1, limit)
         ELSE cursor + 1
    ELSE cursor

\* the loop that accumulates the base-128 digits bytes[1..cursor-1]
RECURSIVE TagValue(_, _, _, _)
TagValue(buf, i, cursor, acc) ==
    IF i < cursor
    THEN TagValue(buf, i + 1, cursor, ShiftLeft(acc, 7) + (buf[i + 1] % 128))
    ELSE acc

\* the largest long-form tag number fromBytes takes for a short-form one
ShortFormCeiling == 31

\* the number of octets after the identifier octet the tag scan may visit
TagScanLimit == 4

\* lengthNumberOctets.forEach: length <<= 8; length += octet
RECURSIVE LengthValue(_, _, _)
LengthValue(octets, i, acc) ==
    IF i > Len(octets) THEN acc
    ELSE LengthValue(octets, i + 1, ShiftLeft(acc, 8) + octets[i])

\* the while loop over the children of an indefinite-length element, from
\* offset sentinel: the offset it stops at, whether it stopped at an
\* end-of-contents child (found) and where the last child parsed started
ScanChildren(this, buf, sentinel) ==
    IF sentinel < Len(buf)
    THEN LET child == fromBytes([NewBERElement EXCEPT !.recursionCount = this.recursionCount + 1],
                                Slice(buf, sentinel, Len(buf)))
         IN  IF child.kind # "ok"
             THEN [kind |-> child.kind, sentinel |-> sentinel, found |-> FALSE,
                   childStart |-> sentinel, maxIndex |-> sentinel + child.maxIndex]
             ELSE IF IsEndOfContent(child.el)
                  THEN [kind |-> "ok", sentinel |-> sentinel + child.n, found |-> TRUE,
                        childStart |-> sentinel, maxIndex |-> sentinel + child.maxIndex]
                  ELSE LET rest == ScanChildren(this, buf, sentinel + child.n)
                       IN  [rest EXCEPT !.maxIndex = Max(@, sentinel + child.maxIndex)]
    ELSE [kind |-> "ok", sentinel |-> sentinel, found |-> FALSE,
          childStart |-> sentinel, maxIndex |-> -1]

\* mutant of MaxLengthOctets: one length octet more is taken
MaxLengthOctetsWide == 4 + 1

\* the largest number of length octets of the definite long form
MaxLengthOctets == 4

\* mutant of truncatedLong: the comparison is off by one
truncatedLongLate(cursor, len, buf) == (cursor + len) > Len(buf) + 1

\* definite long form: cursor + length > bytes.length, cursor past the
\* length octets
truncatedLong(cursor, len, buf) == (cursor + len) > Len(buf)

\* mutant of truncatedShort: the comparison is off by one
truncatedShortLate(cursor, len, buf) == (cursor + len) > Len(buf) + 1

\* definite short form: cursor + length > bytes.length, cursor past the
\* length octet
truncatedShort(cursor, len, buf) == (cursor + len) > Len(buf)

\* the test after the scan of an indefinite-length value: the scan stopped
\* at the end of the buffer and the last two octets are not both zero
noEndOfContent(buf, sentinel) ==
    /\ sentinel = Len(buf)
    /\ (buf[(sentinel - 1) + 1] # 0 \/ buf[(sentinel - 2) + 1] # 0)

\* the length octets and the value, with cursor at the first length octet
fromBytesLength(this, buf, cursor, maxIndex) ==
    LET first == buf[cursor + 1]
        mi == Max(maxIndex, cursor)
    IN  IF HighBit(first)
        THEN LET numberOfLengthOctets == first % 128
             IN  IF numberOfLengthOctets # 0
                 THEN IF numberOfLengthOctets = 127
                      THEN Throw(this, "UndefinedError", mi)
                      ELSE IF numberOfLengthOctets > MaxLengthOctets
                      THEN Throw(this, "OverflowError", mi)
                      ELSE IF cursor + numberOfLengthOctets >= Len(buf)
                      THEN Throw(this, "TruncationError", mi)
                      ELSE LET c1 == cursor + 1
                               lengthNumberOctets ==
                                   [j \in 1..4 |->
                                       IF j > 4 - numberOfLengthOctets
                                       THEN buf[(c1 + numberOfLengthOctets - (5 - j)) + 1]
                                       ELSE 0]
                               len == LengthValue(lengthNumberOctets, 1, 0)
                               mi2 == Max(mi, c1 + numberOfLengthOctets - 1)
                               c2 == c1 + numberOfLengthOctets
                           IN  IF (c1 + len) < c1
                               THEN Throw(this, "OverflowError", mi2)
                               ELSE IF truncatedLong(c2, len, buf)
                               THEN Throw(this, "TruncationError", mi2)
                               ELSE Return([this EXCEPT !.value = Slice(buf, c2, c2 + len)],
                                           c2 + len, mi2)
                 ELSE IF this.construction # constructed
                      THEN Throw(this, "ConstructionError", mi)
                      ELSE LET startOfValue == cursor + 1
                               scan == ScanChildren(this, buf, startOfValue)
                               sentinel == scan.sentinel
                               mi3 == Max(mi, scan.maxIndex)
                               mi4 == IF sentinel = Len(buf) THEN Max(mi3, sentinel - 1) ELSE mi3
                           IN  IF scan.kind # "ok"
                               THEN Throw(this, scan.kind, mi3)
                               ELSE IF noEndOfContent(buf, sentinel)
                               THEN Throw(this, "TruncationError", mi4)
                               ELSE Return([this EXCEPT !.value = Slice(buf, startOfValue, sentinel - 2)],
                                           sentinel, mi4)
        ELSE LET len == first % 128
                 c1 == cursor + 1
             IN  IF truncatedShort(c1, len, buf)
                 THEN Throw(this, "TruncationError", mi)
                 ELSE Return([this EXCEPT !.value = Slice(buf, c1, c1 + len)], c1 + len, mi)

\* the identifier octets of a buffer of two octets or more: the fields they
\* assign and the cursor they leave at the first length octet
fromBytesIdentifier(this, buf) ==
    LET this1 == [this EXCEPT !.tagClass = buf[1] \div 64,
                              !.construction = (buf[1] \div 32) % 2,
                              !.tagNumber = buf[1] % 32]
    IN  IF this1.tagNumber >= 31
        THEN IF buf[2] = 128
             THEN [kind |-> "PaddingError", el |-> this1, cursor |-> 1, maxIndex |-> 1]
             ELSE LET this2 == [this1 EXCEPT !.tagNumber = 0]
                      limit == IF (Len(buf) - 1) >= TagScanLimit
                               THEN TagScanLimit ELSE (Len(buf) - 1)
                      cursor == TagScan(buf, 1, limit)
                      mi == Max(1, cursor - 1)
                  IN  IF HighBit(buf[(cursor - 1) + 1])
                      THEN IF limit = (Len(buf) - 1)
                           THEN [kind |-> "TruncationError", el |-> this2,
                                 cursor |-> cursor, maxIndex |-> mi]
                           ELSE [kind |-> "OverflowError", el |-> this2,
                                 cursor |-> cursor, maxIndex |-> mi]
                      ELSE LET this3 == [this2 EXCEPT !.tagNumber = TagValue(buf, 1, cursor, 0)]
                           IN  IF this3.tagNumber <= ShortFormCeiling
                               THEN [kind |-> "ASN1Error", el |-> this3,
                                     cursor |-> cursor, maxIndex |-> mi]
                               ELSE [kind |-> "ok", el |-> this3,
                                     cursor |-> cursor, maxIndex |-> mi]
        ELSE [kind |-> "ok", el |-> this1, cursor |-> 1, maxIndex |-> 0]

\* fromBytes (bytes): the number of octets read, or the error thrown
fromBytes(this, buf) ==
    IF Len(buf) < 2
    THEN Throw(this, "TruncationError", -1)
    ELSE IF (this.recursionCount + 1) > nestingRecursionLimit
    THEN Throw(this, "RecursionError", -1)
    ELSE LET id == fromBytesIdentifier(this, buf)
         IN  IF id.kind # "ok"
             THEN Throw(id.el, id.kind, id.maxIndex)
             ELSE fromBytesLength(id.el, buf, id.cursor, id.maxIndex)

----------------------------------------------------------------------------
(* BERElement.toBytes *)

\* the while loop that writes the tag number in base 128, every octet with
\* the continuation bit set
RECURSIVE encodedNumber(_)
encodedNumber(number) ==
    IF number = 0 THEN << >>
    ELSE encodedNumber(number \div 128) \o <<128 + (number % 128)>>

\* the first tag number written in long form
LongFormFloor == 31

\* the identifier octets
tagBytes(this) ==
    LET lead == (this.tagClass * 64) + (this.construction * 32)
    IN  IF this.tagNumber < LongFormFloor
        THEN <<lead + this.tagNumber>>
        ELSE LET digits == encodedNumber(this.tagNumber)
                 last == Len(digits)
             IN  <<lead + 31>> \o [digits EXCEPT ![last] = @ % 128]

\* the first value length written in long form
LongLengthFloor == 127

\* the octets of length that count as padding: every zero octet among the
\* first three
startOfNonPadding(octets) ==
    Cardinality({i \in 1..(Len(octets) - 1) : octets[i] = 0})

\* the length octets under the definite preference
definiteLengthOctets(len) ==
    IF len < LongLengthFloor
    THEN <<len>>
    ELSE LET octets == [i \in 1..4 |-> (len \div Pow2(8 * (4 - i))) % 256]
             kept == SubSeq(octets, startOfNonPadding(octets) + 1, 4)
         IN  <<128 + Len(kept)>> \o kept

\* the whole encoding: identifier, length, value and, under the indefinite
\* preference, two zero octets
toBytes(this, preference) ==
    IF preference = definite
    THEN tagBytes(this) \o definiteLengthOctets(Len(this.value)) \o this.value
    ELSE tagBytes(this) \o <<128>> \o this.value \o <<0, 0>>

----------------------------------------------------------------------------
(* BERElement.sequence *)

RECURSIVE Concat(_)
Concat(seqs) ==
    IF Len(seqs) = 0 THEN << >> ELSE Head(seqs) \o Concat(Tail(seqs))

\* set sequence (value)
setSequence(this, value, preference) ==
    [this EXCEPT !.value = Concat([k \in 1..Len(value) |-> toBytes(value[k], preference)]),
                 !.construction = constructed]

\* the while loop of get sequence, from offset i
RECURSIVE sequenceLoop(_, _, _)
sequenceLoop(value, i, encodedElements) ==
    IF i < Len(value)
    THEN LET next == fromBytes(NewBERElement, Slice(value, i, Len(value)))
         IN  IF next.kind # "ok"
             THEN [kind |-> next.kind, els |-> << >>, n |-> i]
             ELSE sequenceLoop(value, i + next.n, Append(encodedElements, next.el))
    ELSE [kind |-> "ok", els |-> encodedElements, n |-> i]

\* get sequence ()
getSequence(this) ==
    IF this.construction # constructed
    THEN [kind |-> "ConstructionError", els |-> << >>, n |-> 0]
    ELSE IF Len(this.value) = 0
    THEN [kind |-> "ok", els |-> << >>, n |-> 0]
    ELSE sequenceLoop(this.value, 0, << >>)

----------------------------------------------------------------------------
(* The calls *)

NoRet == [kind |-> "none", n |-> 0, maxIndex |-> -1]

\* bytes = elem.toBytes()
CallToBytes ==
    /\ pc = "idle"
    /\ bytes' = toBytes(elem, lengthEncodingPreference)
    /\ pc' = "buffered"
    /\ UNCHANGED <<elem, fresh, ret, children, got, length, lengthOctets,
                   lengthEncodingPreference, input, output, runtime>>

\* n = fresh.fromBytes(bytes)
CallFromBytes ==
    /\ pc = "buffered"
    /\ LET r == fromBytes(fresh, bytes)
       IN  /\ fresh' = r.el
           /\ ret' = [kind |-> r.kind, n |-> r.n, maxIndex |-> r.maxIndex]
    /\ pc' = "decoded"
    /\ UNCHANGED <<elem, bytes, children, got, length, lengthOctets,
                   lengthEncodingPreference, input, output, runtime>>

\* elem.sequence = children
CallSetSequence ==
    /\ pc = "idle"
    /\ elem' = setSequence(elem, children, lengthEncodingPreference)
    /\ pc' = "set"
    /\ UNCHANGED <<bytes, fresh, ret, children, got, length, lengthOctets,
                   lengthEncodingPreference, input, output, runtime>>

\* got = elem.sequence
CallGetSequence ==
    /\ pc = "set"
    /\ LET r == getSequence(elem)
       IN  /\ got' = r.els
           /\ ret' = [kind |-> r.kind, n |-> r.n, maxIndex |-> -1]
    /\ pc' = "got"
    /\ UNCHANGED <<elem, bytes, fresh, children, length, lengthOctets,
                   lengthEncodingPreference, input, output, runtime>>

\* the length branch of toBytes on a value of length octets
CallLengthOctets ==
    /\ pc = "measured"
    /\ lengthOctets' = definiteLengthOctets(length)
    /\ pc' = "emitted"
    /\ UNCHANGED <<elem, bytes, fresh, ret, children, got, length,
                   lengthEncodingPreference, input, output, runtime>>

----------------------------------------------------------------------------
(* Encoding then decoding: fresh.fromBytes(elem.toBytes()) for every        *)
(* element over TagNumbers and Values                                       *)

\* tag numbers at both sides of every change in the number of tag octets
TagNumbers == {0, 4, 30, 31, 32, 127, 128, 16383, 16384, 2097151, 2097152,
               268435455, 268435456, 2147483647}

ValueOctets == {0, 1, 128, 255}

\* value lengths at both sides of the change of length form
LongValueLengths == {126, 127, 128, 129, 255, 256}

ShortValues == UNION {[1..n -> ValueOctets] : n \in 0..MaxValueLen}

\* values of zero octets, only their length matters
LongValues == {[i \in 1..n |-> 0] : n \in LongValueLengths}

\* every tag with every short value, and the long values under one tag number
Elements ==
    [tagClass : 0..3, construction : {primitive, constructed},
     tagNumber : TagNumbers, value : ShortValues, recursionCount : {0}]
    \cup [tagClass : 0..3, construction : {primitive, constructed},
          tagNumber : {4}, value : LongValues, recursionCount : {0}]

Init ==
    /\ pc = "idle"
    /\ elem \in Elements
    /\ bytes = << >>
    /\ fresh = NewBERElement
    /\ ret = NoRet
    /\ children = << >>
    /\ got = << >>
    /\ length = 0
    /\ lengthOctets = << >>
    /\ lengthEncodingPreference \in {definite, indefinite}
    /\ input = << >>
    /\ output = << >>
    /\ runtime = "TextEncoder"

Next == CallToBytes \/ CallFromBytes

Spec == Init /\ [][Next]_vars

----------------------------------------------------------------------------
(* Decoding arbitrary input: fresh.fromBytes(bytes) for every buffer of at  *)
(* most MaxBufLen octets, the first in LeadingOctets, the rest in           *)
(* InputOctets                                                              *)

\* octets the input buffers are made of: identifier octets of both
\* constructions and of the long tag form, every class of length octet
InputOctets == {0, 1, 31, 36, 128, 129, 132, 133, 255}

\* first octets of the input buffers: primitive and constructed, short and
\* long tag form, with and without the top bit
LeadingOctets == {0, 31, 36, 129, 255}

\* bytes is a buffer of n octets
BufferOfLength(n) ==
    IF n = 0
    THEN bytes = << >>
    ELSE \E h \in LeadingOctets : \E t \in [1..(n - 1) -> InputOctets] :
             bytes = <<h>> \o t

InitDecode ==
    /\ pc = "buffered"
    /\ elem = NewBERElement
    /\ \E n \in 0..MaxBufLen : BufferOfLength(n)
    /\ fresh = NewBERElement
    /\ ret = NoRet
    /\ children = << >>
    /\ got = << >>
    /\ length = 0
    /\ lengthOctets = << >>
    /\ lengthEncodingPreference = definite
    /\ input = << >>
    /\ output = << >>
    /\ runtime = "TextEncoder"

NextDecode == CallFromBytes

SpecDecode == InitDecode /\ [][NextDecode]_vars

----------------------------------------------------------------------------
(* The sequence accessors: elem.sequence = children, then elem.sequence     *)

ChildTagNumbers == {0, 4, 31}

ChildValues == {<< >>, <<0>>, <<0, 0>>}

ChildElements ==
    [tagClass : 0..3, construction : {primitive, constructed},
     tagNumber : ChildTagNumbers, value : ChildValues, recursionCount : {0}]

InitSequence ==
    /\ pc = "idle"
    /\ elem = [NewBERElement EXCEPT !.tagNumber = 16]
    /\ bytes = << >>
    /\ fresh = NewBERElement
    /\ ret = NoRet
    /\ children \in UNION {[1..n -> ChildElements] : n \in 0..MaxChildren}
    /\ got = << >>
    /\ length = 0
    /\ lengthOctets = << >>
    /\ lengthEncodingPreference \in {definite, indefinite}
    /\ input = << >>
    /\ output = << >>
    /\ runtime = "TextEncoder"

NextSequence == CallSetSequence \/ CallGetSequence

SpecSequence == InitSequence /\ [][NextSequence]_vars

----------------------------------------------------------------------------
(* The length octets of toBytes for value lengths too long to enumerate the *)
(* value of                                                                 *)

\* every length up to MaxProbedLength, and lengths at both sides of every
\* change in the number of length octets, with and without zero octets
Lengths ==
    (0..MaxProbedLength)
    \cup {65535, 65536, 65537, 65792, 16711680, 16777215, 16777216, 16777217,
          16842752, 2130706432, 2147483647}

InitLength ==
    /\ pc = "measured"
    /\ elem = NewBERElement
    /\ bytes = << >>
    /\ fresh = NewBERElement
    /\ ret = NoRet
    /\ children = << >>
    /\ got = << >>
    /\ length \in Lengths
    /\ lengthOctets = << >>
    /\ lengthEncodingPreference = definite
    /\ input = << >>
    /\ output = << >>
    /\ runtime = "TextEncoder"

NextLength == CallLengthOctets

SpecLength == InitLength /\ [][NextLength]_vars

----------------------------------------------------------------------------
(* Properties *)

\* two elements are equal: tag class, construction, tag number, value octets
SameElement(a, b) ==
    /\ a.tagClass = b.tagClass
    /\ a.construction = b.construction
    /\ a.tagNumber = b.tagNumber
    /\ a.value = b.value

\* C1: under the definite preference, fromBytes(E.toBytes()) on a fresh
\* element returns E.toBytes().length and leaves the fresh element with the
\* tag class, construction, tag number and value octets of E
C1_RoundTrip ==
    (pc = "decoded" /\ lengthEncodingPreference = definite)
        => /\ ret.kind = "ok"
           /\ ret.n = Len(bytes)
           /\ SameElement(fresh, elem)

\* C2: under the definite preference the sequence getter after the sequence
\* setter returns children equal to, as many as and in the order of the
\* children set, and the octets consumed add up to the whole value
C2_SequenceReadBack ==
    (pc = "got" /\ lengthEncodingPreference = definite)
        => /\ ret.kind = "ok"
           /\ ret.n = Len(elem.value)
           /\ Len(got) = Len(children)
           /\ \A k \in 1..Len(children) : SameElement(got[k], children[k])

\* index of the last identifier octet of a long-form tag whose octets start
\* at index i, 0 when the buffer ends before an octet without the
\* continuation bit (indices counted from 1)
RECURSIVE LongTagEnd(_, _)
LongTagEnd(buf, i) ==
    IF i > Len(buf) THEN 0
    ELSE IF buf[i] < 128 THEN i ELSE LongTagEnd(buf, i + 1)

\* the number of identifier octets of a buffer, 0 when it ends inside them
IdentifierOctets(buf) ==
    IF buf[1] % 32 < 31 THEN 1 ELSE LongTagEnd(buf, 2)

\* the number written by base-128 digits, most significant first
RECURSIVE Base128(_)
Base128(digits) ==
    IF Len(digits) = 0 THEN 0
    ELSE Base128(SubSeq(digits, 1, Len(digits) - 1)) * 128 + (digits[Len(digits)] % 128)

\* the octets, read as a big-endian number, denote v (for v below 256)
BigEndianIs(octets, v) ==
    /\ \A i \in 1..(Len(octets) - 1) : octets[i] = 0
    /\ octets[Len(octets)] = v

\* the octets, read as a big-endian number, denote more than v (for v below 256)
BigEndianExceeds(octets, v) ==
    \/ \E i \in 1..(Len(octets) - 1) : octets[i] # 0
    \/ octets[Len(octets)] > v

\* what the identifier octets of the buffer decode to
Identifier == fromBytesIdentifier(NewBERElement, bytes)

\* fromBytes has run on a buffer whose identifier octets it took
LengthReached == pc = "decoded" /\ Len(bytes) >= 2 /\ Identifier.kind = "ok"

\* the first length octet, and the number of octets after it
FirstLengthOctet == bytes[Identifier.cursor + 1]
AfterFirstLengthOctet == Len(bytes) - (Identifier.cursor + 1)

\* C3: fromBytes either fails or returns n with 2 <= n <= buf.length, n
\* being the identifier octets + the length octets + the value octets + the
\* two octets 00 00 when the length was indefinite, the value being the
\* octets after the header; it reads no octet at or beyond buf.length
C3_Consumed ==
    pc = "decoded"
        => /\ ret.maxIndex < Len(bytes)
           /\ ret.kind = "ok"
                => LET i == IdentifierOctets(bytes)
                       first == bytes[i + 1]
                       l == IF first <= 128 THEN 1 ELSE 1 + (first % 128)
                       eoc == IF first = 128 THEN 2 ELSE 0
                   IN  /\ 2 <= ret.n
                       /\ ret.n <= Len(bytes)
                       /\ ret.n = i + l + Len(fresh.value) + eoc
                       /\ fresh.value = SubSeq(bytes, i + l + 1, i + l + Len(fresh.value))

\* an indefinite-length element was parsed and octets are left after it
C3_Witness ==
    /\ pc = "decoded"
    /\ ret.kind = "ok"
    /\ bytes[IdentifierOctets(bytes) + 1] = 128
    /\ ret.n < Len(bytes)

\* C4: fromBytes rejects a long-form tag number whose digits decode to a
\* value <= 30 and accepts a minimally encoded long-form tag number of any
\* value >= 31 (here: on up to 4 octets, a length octet following), decoding
\* it to that value
C4_LongFormTag ==
    (pc = "decoded" /\ Len(bytes) >= 2 /\ bytes[1] % 32 = 31 /\ bytes[2] # 128)
        => LET e == IdentifierOctets(bytes)
           IN  (e > 0 /\ e < Len(bytes) /\ e <= 5)
                   => LET v == Base128(SubSeq(bytes, 2, e))
                      IN  IF v <= 30
                          THEN ret.kind # "ok"
                          ELSE Identifier.kind = "ok" /\ fresh.tagNumber = v

\* C5: fromBytes takes a long-form tag number above 31 carried on up to 4
\* octets and decodes it; a buffer that ends inside a tag number of at most
\* 4 octets so far fails with TruncationError, one that still continues
\* after 5 octets with OverflowError
C5_TagNumberWidth ==
    (pc = "decoded" /\ Len(bytes) >= 2 /\ bytes[1] % 32 = 31 /\ bytes[2] # 128)
        => LET e == IdentifierOctets(bytes)
           IN  /\ (e > 0 /\ e < Len(bytes) /\ e <= 5 /\ Base128(SubSeq(bytes, 2, e)) > 31)
                   => /\ Identifier.kind = "ok"
                      /\ fresh.tagNumber = Base128(SubSeq(bytes, 2, e))
               /\ (e = 0 /\ Len(bytes) <= 5) => ret.kind = "TruncationError"
               /\ (e = 0 /\ Len(bytes) >= 6) => ret.kind = "OverflowError"

\* C6: the first length octet is classified: high bit clear -> short
\* definite length; 0x80 on a primitive element -> ConstructionError; 0xFF
\* -> UndefinedError; 0x85..0xFE -> OverflowError with no length octet
\* read; 0x81..0x84 -> that many big-endian octets give the length
C6_LengthOctetClasses ==
    LengthReached
        => LET first == FirstLengthOctet
               after == AfterFirstLengthOctet
               k == first - 128
           IN  /\ first < 128
                   => /\ ret.kind = (IF first <= after THEN "ok" ELSE "TruncationError")
                      /\ ret.kind = "ok" => Len(fresh.value) = first
               /\ (first = 128 /\ fresh.construction = primitive)
                   => ret.kind = "ConstructionError"
               /\ first = 255 => ret.kind = "UndefinedError"
               /\ first \in 133..254
                   => ret.kind = "OverflowError" /\ ret.maxIndex <= Identifier.cursor
               /\ first \in 129..132
                   => /\ ret.kind \in {"ok", "TruncationError", "OverflowError"}
                      /\ ret.kind = "ok"
                           => /\ k <= after
                              /\ BigEndianIs(SubSeq(bytes, Identifier.cursor + 2,
                                                    Identifier.cursor + 1 + k),
                                             Len(fresh.value))
                              /\ ret.n = Identifier.cursor + 1 + k + Len(fresh.value)

\* a length given on two octets was read and the value taken
C6_Witness ==
    /\ LengthReached
    /\ FirstLengthOctet = 129
    /\ ret.kind = "ok"
    /\ Len(fresh.value) > 0

\* the outcome C7 asks for; overflow says whether a length of four octets
\* with the top bit set is let to fail with OverflowError
C7_Body(overflow) ==
    pc = "decoded"
        => /\ Len(bytes) < 2 => ret.kind = "TruncationError"
           /\ LengthReached
                => LET first == FirstLengthOctet
                       after == AfterFirstLengthOctet
                       k == first - 128
                       octets == SubSeq(bytes, Identifier.cursor + 2, Identifier.cursor + 1 + k)
                   IN  /\ (first < 128 /\ first > after) => ret.kind = "TruncationError"
                       /\ (first \in 129..132 /\ k > after) => ret.kind = "TruncationError"
                       /\ (first \in 129..132 /\ k <= after)
                            => /\ IF overflow /\ k = 4 /\ octets[1] >= 128
                                  THEN ret.kind = "OverflowError"
                                  ELSE BigEndianExceeds(octets, after - k)
                                           => ret.kind = "TruncationError"
                               /\ ret.kind = "ok" => BigEndianIs(octets, Len(fresh.value))

\* C7 as stated: a declared definite length beyond the octets left, or a
\* buffer ending inside the length octets, fails with TruncationError; a
\* value returned is as long as declared; a buffer of fewer than 2 octets
\* fails with TruncationError
C7_Truncation == C7_Body(FALSE)

\* C7 as amended: the same, except that a length of four octets with the top
\* bit of its first octet set (2^31 or more) fails with OverflowError
C7_TruncationOrOverflow == C7_Body(TRUE)

\* a long-form length beyond the octets left was refused as truncated
C7_Witness ==
    /\ LengthReached
    /\ FirstLengthOctet \in 129..132
    /\ FirstLengthOctet - 128 <= AfterFirstLengthOctet
    /\ ret.kind = "TruncationError"

\* C8: fromBytes returns from an indefinite-length element only when a
\* child that is (universal, primitive, tag 0, empty) was parsed, with the
\* value the octets from the length octet to the start of that child and
\* the offset just past it; when the children run to the end of the buffer
\* without one it fails with TruncationError
C8_EndOfContents ==
    (LengthReached /\ FirstLengthOctet = 128 /\ Identifier.el.construction = constructed)
        => LET startOfValue == Identifier.cursor + 1
               scan == ScanChildren(NewBERElement, bytes, startOfValue)
           IN  /\ ret.kind = "ok"
                   => /\ scan.found
                      /\ ret.n = scan.sentinel
                      /\ fresh.value = Slice(bytes, startOfValue, scan.childStart)
               /\ (scan.kind = "ok" /\ ~scan.found) => ret.kind = "TruncationError"

\* C9: under the definite preference toBytes emits a single length octet
\* equal to the value length whenever the value length is <= 127, and the
\* long form only for value lengths >= 128
C9_ShortFormLength ==
    pc = "emitted"
        => IF length <= 127
           THEN lengthOctets = <<length>>
           ELSE Len(lengthOctets) > 1 /\ lengthOctets[1] > 128

\* the fewest octets whose big-endian value is n
RECURSIVE MinimalBigEndian(_)
MinimalBigEndian(n) ==
    IF n < 256 THEN <<n>>
    ELSE MinimalBigEndian(n \div 256) \o <<n % 256>>

\* C10: for a value length L that needs the long form toBytes emits 0x80|N
\* followed by the N octets of the minimal big-endian form of L
C10_MinimalLongForm ==
    (pc = "emitted" /\ length >= 128)
        => lengthOctets = <<128 + Len(MinimalBigEndian(length))>> \o MinimalBigEndian(length)
\* C11: under the indefinite preference toBytes emits the identifier, the
\* length octet 0x80, the value octets and the end-of-contents octets 00 00,
\* and fromBytes of that output on a fresh element returns its whole length
\* and leaves the tag class, construction, tag number and value octets of
\* the element encoded, primitive or constructed
C11_IndefiniteRoundTrip ==
    (pc = "decoded" /\ lengthEncodingPreference = indefinite)
        => /\ bytes = tagBytes(elem) \o <<128>> \o elem.value \o <<0, 0>>
           /\ ret.kind = "ok"
           /\ ret.n = Len(bytes)
           /\ SameElement(fresh, elem)
----------------------------------------------------------------------------
(* BERElement.deconstruct and the bitString getter *)

\* outcome of a getter that threw, and of one that returned v
Fail(kind) == [kind |-> kind, value |-> << >>]
Value(v) == [kind |-> "ok", value |-> v]

\* the octets of the fragments collected in appendy, copied one after the
\* other into a new array
whole(appendy) == Concat(appendy)

\* the two tests a getter makes on every substring of a constructed string;
\* the variant leaves out the test of the tag number
invalidTagClass(substring, this) == substring.tagClass # this.tagClass

invalidTag(substring, this) ==
    \/ substring.tagClass # this.tagClass
    \/ substring.tagNumber # this.tagNumber

RECURSIVE deconstruct(_), deconstructLoop(_, _, _, _), deconstructPush(_, _, _, _, _)

\* substrings.forEach of deconstruct, from substring k on
deconstructLoop(this, substrings, k, appendy) ==
    IF k > Len(substrings)
    THEN Value(whole(appendy))
    ELSE LET substring == substrings[k]
         IN  IF invalidTag(substring, this)
             THEN Fail("ConstructionError")
             ELSE deconstructPush(this, substrings, k, appendy,
                                  deconstruct([substring EXCEPT
                                      !.recursionCount = this.recursionCount + 1]))

\* appendy.push(substring.deconstruct(dataType)) and the rest of the loop:
\* deconstructed is what the call on substring k returned or threw
deconstructPush(this, substrings, k, appendy, deconstructed) ==
    IF deconstructed.kind # "ok"
    THEN deconstructed
    ELSE deconstructLoop(this, substrings, k + 1,
                         Append(appendy, deconstructed.value))

\* deconstruct from the line after const substrings = this.sequence
deconstructSubstrings(this, substrings) ==
    IF substrings.kind # "ok"
    THEN Fail(substrings.kind)
    ELSE deconstructLoop(this, substrings.els, 1, << >>)

\* deconstruct (dataType)
deconstruct(this) ==
    IF this.construction = primitive
    THEN Value(this.value)
    ELSE IF (this.recursionCount + 1) > nestingRecursionLimit
    THEN Fail("RecursionError")
    ELSE deconstructSubstrings(this, getSequence(this))

\* get octetString ()
getOctetString(this) == deconstruct(this)

\* the character codes TextDecoder("utf-8").decode and Buffer.toString("utf-8")
\* make of octets none of which starts a well-formed sequence of several
\* octets: an octet below 0x80 is its own character, any other U+FFFD
decodeUtf8(octets) ==
    [i \in 1..Len(octets) |-> IF octets[i] < 128 THEN octets[i] ELSE 65533]

\* get utf8String () from the line after const valueBytes =
\* this.deconstruct("UTF8String"): the branch under TextEncoder decodes the
\* deconstructed octets, the branch under Buffer decodes this.value
utf8Text(this, valueBytes, global) ==
    IF valueBytes.kind # "ok"
    THEN valueBytes
    ELSE IF global = "TextEncoder"
    THEN Value(decodeUtf8(valueBytes.value))
    ELSE Value(decodeUtf8(this.value))

\* get utf8String ()
getUtf8String(this, global) == utf8Text(this, deconstruct(this), global)

\* the eight booleans the getter makes of an octet, high bit first
Bits(octet) == [i \in 1..8 |-> (octet \div Pow2(8 - i)) % 2 = 1]

\* the primitive branch of get bitString ()
bitStringPrimitive(this) ==
    IF Len(this.value) = 0
    THEN Fail("ASN1Error")
    ELSE IF Len(this.value) = 1 /\ this.value[1] # 0
    THEN Fail("ASN1Error")
    ELSE IF this.value[1] > 7
    THEN Fail("ASN1Error")
    ELSE LET bits == Concat([i \in 1..(Len(this.value) - 1) |-> Bits(this.value[i + 1])])
         IN  Value(SubSeq(bits, 1, Len(bits) - this.value[1]))

\* the test the getter makes on every substring but the last
nonZeroFirstByte(substring) ==
    /\ substring.construction = primitive
    /\ Len(substring.value) > 0
    /\ substring.value[1] # 0

RECURSIVE getBitString(_), bitStringLoop(_, _, _, _), bitStringPush(_, _, _, _, _)

\* the second substrings.forEach of get bitString, from substring k on
bitStringLoop(this, substrings, k, appendy) ==
    IF k > Len(substrings)
    THEN Value(appendy)
    ELSE LET substring == substrings[k]
         IN  IF invalidTag(substring, this)
             THEN Fail("ConstructionError")
             ELSE bitStringPush(this, substrings, k, appendy,
                                getBitString([substring EXCEPT
                                    !.recursionCount = this.recursionCount + 1]))

\* appendy.push(...substring.bitString) and the rest of the loop: bits is
\* what the getter of substring k returned or threw
bitStringPush(this, substrings, k, appendy, bits) ==
    IF bits.kind # "ok"
    THEN bits
    ELSE bitStringLoop(this, substrings, k + 1, appendy \o bits.value)

\* get bitString () from the line after const substrings = this.sequence
bitStringSubstrings(this, substrings) ==
    IF substrings.kind # "ok"
    THEN Fail(substrings.kind)
    ELSE IF \E k \in 1..(Len(substrings.els) - 1) :
                nonZeroFirstByte(substrings.els[k])
    THEN Fail("ASN1Error")
    ELSE bitStringLoop(this, substrings.els, 1, << >>)

\* get bitString ()
getBitString(this) ==
    IF this.construction = primitive
    THEN bitStringPrimitive(this)
    ELSE IF (this.recursionCount + 1) > nestingRecursionLimit
    THEN Fail("RecursionError")
    ELSE bitStringSubstrings(this, getSequence(this))

\* output = elem.octetString
CallGetOctetString ==
    /\ pc \in {"built", "stored"}
    /\ LET r == getOctetString(elem)
       IN  /\ output' = r.value
           /\ ret' = [kind |-> r.kind, n |-> 0, maxIndex |-> -1]
    /\ pc' = IF pc = "built" THEN "octets" ELSE "octetsStored"
    /\ UNCHANGED <<elem, bytes, fresh, children, got, length, lengthOctets,
                   lengthEncodingPreference, input, runtime>>

\* output = elem.utf8String
CallGetUtf8String ==
    /\ pc = "built"
    /\ LET r == getUtf8String(elem, runtime)
       IN  /\ output' = r.value
           /\ ret' = [kind |-> r.kind, n |-> 0, maxIndex |-> -1]
    /\ pc' = "text"
    /\ UNCHANGED <<elem, bytes, fresh, children, got, length, lengthOctets,
                   lengthEncodingPreference, input, runtime>>

\* output = elem.bitString
CallGetBitString ==
    /\ pc \in {"built", "stored"}
    /\ LET r == getBitString(elem)
       IN  /\ output' = r.value
           /\ ret' = [kind |-> r.kind, n |-> 0, maxIndex |-> -1]
    /\ pc' = IF pc = "built" THEN "bits" ELSE "bitsStored"
    /\ UNCHANGED <<elem, bytes, fresh, children, got, length, lengthOctets,
                   lengthEncodingPreference, input, runtime>>
----------------------------------------------------------------------------
(* Constructed strings: elem is built from a tree of fragments with the     *)
(* constructor and the sequence setter, then read with a getter             *)

\* most fragments directly under the outer element
MaxFragments == 2

\* most fragments under a fragment of the outer element
MaxNestedFragments == 1

\* longest chain of constructed fragments one inside the other
MaxNesting == 6

\* a primitive fragment and a constructed one, as the arguments of
\* new BERElement(tagClass, construction, tagNumber) with the value or the
\* sub-elements to set
Leaf(tagClass, tagNumber, value) ==
    [tagClass |-> tagClass, construction |-> primitive, tagNumber |-> tagNumber,
     value |-> value, kids |-> << >>]

Node(tagClass, tagNumber, kids) ==
    [tagClass |-> tagClass, construction |-> constructed, tagNumber |-> tagNumber,
     value |-> << >>, kids |-> kids]

\* primitive fragments: under the tag of the outer element a bit string of
\* whole octets, one with 5 unused bits and an empty value; under another tag
\* number and under another tag class
LeafFragments ==
    {Leaf(universal, 4, <<0, 15>>), Leaf(universal, 4, <<5, 96>>),
     Leaf(universal, 4, << >>),
     Leaf(universal, 3, <<0, 15>>), Leaf(universal, 3, <<5, 96>>),
     Leaf(context, 4, <<0, 15>>)}

\* primitive fragments of constructed fragments: two under the tag of the
\* outer element and one under another tag number
NestedLeafFragments ==
    {Leaf(universal, 4, <<0, 15>>), Leaf(universal, 4, <<5, 96>>),
     Leaf(universal, 3, <<0, 15>>)}

\* constructed fragments of primitive ones
NestedFragments ==
    {Node(universal, n, kids) :
        n \in {3, 4},
        kids \in UNION {[1..m -> NestedLeafFragments] : m \in 0..MaxNestedFragments}}

\* outer elements of primitive and constructed fragments
ShallowTrees ==
    {Node(universal, 4, kids) :
        kids \in UNION {[1..m -> LeafFragments \cup NestedFragments] :
                           m \in 0..MaxFragments}}

\* d constructed fragments one inside the other, the innermost holding kids
RECURSIVE Chain(_, _)
Chain(d, kids) ==
    IF d = 1
    THEN Node(universal, 4, kids)
    ELSE Node(universal, 4, <<Chain(d - 1, kids)>>)

DeepTrees ==
    {Chain(d, kids) : d \in 1..MaxNesting,
                      kids \in {<< >>} \cup {<<l>> : l \in LeafFragments}}

Trees == LeafFragments \cup ShallowTrees \cup DeepTrees

\* the element made of a tree: new BERElement(...) with its value assigned,
\* or with its sequence set to the elements made of the kids
RECURSIVE Fragment(_)
Fragment(tree) ==
    LET this == [NewBERElement EXCEPT !.tagClass = tree.tagClass,
                                      !.tagNumber = tree.tagNumber]
    IN  IF tree.construction = primitive
        THEN [this EXCEPT !.value = tree.value]
        ELSE setSequence(this,
                         [k \in 1..Len(tree.kids) |-> Fragment(tree.kids[k])],
                         definite)

InitFragments ==
    /\ pc = "built"
    /\ input \in Trees
    /\ elem = Fragment(input)
    /\ bytes = << >>
    /\ fresh = NewBERElement
    /\ ret = NoRet
    /\ children = << >>
    /\ got = << >>
    /\ length = 0
    /\ lengthOctets = << >>
    /\ lengthEncodingPreference = definite
    /\ output = << >>
    /\ runtime \in {"TextEncoder", "Buffer"}

NextFragments == CallGetOctetString \/ CallGetUtf8String \/ CallGetBitString

SpecFragments == InitFragments /\ [][NextFragments]_vars

\* every sub-element, at every level, has the tag class and the tag number
\* of the element that holds it
RECURSIVE Matching(_)
Matching(tree) ==
    \A k \in 1..Len(tree.kids) :
        /\ tree.kids[k].tagClass = tree.tagClass
        /\ tree.kids[k].tagNumber = tree.tagNumber
        /\ Matching(tree.kids[k])

\* number of constructed elements on the longest path from the outer element
RECURSIVE Nesting(_)
Nesting(tree) ==
    IF tree.construction = primitive
    THEN 0
    ELSE 1 + (IF Len(tree.kids) = 0 THEN 0
              ELSE CHOOSE n \in {Nesting(tree.kids[k]) : k \in 1..Len(tree.kids)} :
                      \A j \in 1..Len(tree.kids) : Nesting(tree.kids[j]) <= n)

\* the value octets of the primitive leaves, depth first, left to right
RECURSIVE LeafOctets(_)
LeafOctets(tree) ==
    IF tree.construction = primitive
    THEN tree.value
    ELSE Concat([k \in 1..Len(tree.kids) |-> LeafOctets(tree.kids[k])])

\* C12: on an element whose sub-elements all carry, at every level, the tag
\* class and tag number of the element holding them, nested within the limit,
\* the octetString getter returns the value octets of the primitive leaves in
\* document order (the value octets of a primitive element) and the
\* utf8String getter returns the text of those octets
C12_Deconstruct ==
    (Matching(input) /\ Nesting(input) <= nestingRecursionLimit)
        => /\ pc = "octets" => (ret.kind = "ok" /\ output = LeafOctets(input))
           /\ pc = "text" => (ret.kind = "ok" /\ output = decodeUtf8(LeafOctets(input)))

\* C12 for the getters that return octets
C12_DeconstructOctets ==
    (pc = "octets" /\ Matching(input) /\ Nesting(input) <= nestingRecursionLimit)
        => (ret.kind = "ok" /\ output = LeafOctets(input))
\* the unused-bits count a fragment ends with: the first value octet of a
\* primitive fragment, the count of the last sub-element of a constructed one
RECURSIVE UnusedBits(_)
UnusedBits(tree) ==
    IF tree.construction = primitive
    THEN IF Len(tree.value) = 0 THEN 0 ELSE tree.value[1]
    ELSE IF Len(tree.kids) = 0 THEN 0 ELSE UnusedBits(tree.kids[Len(tree.kids)])

\* at some level a sub-element other than the last ends with unused bits
RECURSIVE NonFinalUnused(_)
NonFinalUnused(tree) ==
    \/ \E k \in 1..(Len(tree.kids) - 1) : UnusedBits(tree.kids[k]) # 0
    \/ \E k \in 1..Len(tree.kids) : NonFinalUnused(tree.kids[k])

\* the bits of the octets after the first of every primitive fragment, in
\* document order
RECURSIVE PayloadBits(_)
PayloadBits(tree) ==
    IF tree.construction = primitive
    THEN Concat([i \in 1..(Len(tree.value) - 1) |->
                    [j \in 1..8 |-> (tree.value[i + 1] \div Pow2(8 - j)) % 2 = 1]])
    ELSE Concat([k \in 1..Len(tree.kids) |-> PayloadBits(tree.kids[k])])

\* C13: the bitString getter fails whenever, at some level, a sub-element
\* other than the last has a non-zero unused-bits count, be it primitive or
\* constructed; when it succeeds it returns the bits of all fragments in
\* document order less the unused bits of the final fragment
C13_NonFinalAligned ==
    pc = "bits"
        => /\ NonFinalUnused(input) => ret.kind # "ok"
           /\ ret.kind = "ok"
                => output = SubSeq(PayloadBits(input), 1,
                                   Len(PayloadBits(input)) - UnusedBits(input))
\* every primitive fragment is a bit string the getter accepts: a first
\* octet of at most 7, and 0 when no octet follows it
RECURSIVE WellFormedLeaves(_)
WellFormedLeaves(tree) ==
    IF tree.construction = primitive
    THEN /\ Len(tree.value) >= 1
         /\ tree.value[1] <= 7
         /\ Len(tree.value) = 1 => tree.value[1] = 0
    ELSE \A k \in 1..Len(tree.kids) : WellFormedLeaves(tree.kids[k])

\* at some level a primitive sub-element other than the last has a non-zero
\* first octet
RECURSIVE NonFinalPrimitiveUnused(_)
NonFinalPrimitiveUnused(tree) ==
    \/ \E k \in 1..(Len(tree.kids) - 1) :
          /\ tree.kids[k].construction = primitive
          /\ Len(tree.kids[k].value) > 0
          /\ tree.kids[k].value[1] # 0
    \/ \E k \in 1..Len(tree.kids) : NonFinalPrimitiveUnused(tree.kids[k])

\* a string getter has been called
StringRead == pc \in {"octets", "text", "bits"}

\* C14 as stated: when at some level a sub-element differs in tag class or
\* tag number from the element holding it, the string getters and the
\* bitString getter fail with ConstructionError and return no value
C14_MismatchConstruction ==
    (StringRead /\ ~Matching(input))
        => (ret.kind = "ConstructionError" /\ output = << >>)

\* C14 amended: with such a sub-element every getter fails and returns no
\* value; the error is ConstructionError when the constructed fragments are
\* nested within the limit and, for the bitString getter, every primitive
\* fragment is a well-formed bit string and none but the last of its parent
\* has a non-zero first octet
C14_MismatchFails ==
    (StringRead /\ ~Matching(input))
        => /\ ret.kind # "ok"
           /\ output = << >>
           /\ (/\ Nesting(input) <= nestingRecursionLimit
               /\ pc = "bits" => (WellFormedLeaves(input) /\ ~NonFinalPrimitiveUnused(input)))
                  => ret.kind = "ConstructionError"

\* a mismatch of the tag number one level down, under a sub-element that
\* matches, met by the bitString getter after a fragment it has read
C14_Witness ==
    /\ pc = "bits"
    /\ input = Node(universal, 4, <<Leaf(universal, 4, <<0, 15>>),
                                    Node(universal, 4, <<Leaf(universal, 3, <<0, 15>>)>>)>>)
    /\ ret.kind = "ConstructionError"
    /\ output = << >>
----------------------------------------------------------------------------
(* Nesting: chains of constructed fragments, read with the getters from an  *)
(* element built with the sequence setter, and parsed with fromBytes from   *)
(* their encoding with indefinite lengths                                   *)

\* the encoding of a tree with every constructed element in the indefinite
\* form and every primitive one in the definite form
RECURSIVE IndefiniteBytes(_)
IndefiniteBytes(tree) ==
    LET this == [NewBERElement EXCEPT !.tagClass = tree.tagClass,
                                      !.construction = tree.construction,
                                      !.tagNumber = tree.tagNumber]
    IN  IF tree.construction = primitive
        THEN toBytes([this EXCEPT !.value = tree.value], definite)
        ELSE toBytes([this EXCEPT !.value =
                         Concat([k \in 1..Len(tree.kids) |->
                                    IndefiniteBytes(tree.kids[k])])],
                     indefinite)

InitNesting ==
    /\ pc \in {"built", "buffered"}
    /\ input \in DeepTrees
    /\ elem = Fragment(input)
    /\ bytes = IndefiniteBytes(input)
    /\ fresh = NewBERElement
    /\ ret = NoRet
    /\ children = << >>
    /\ got = << >>
    /\ length = 0
    /\ lengthOctets = << >>
    /\ lengthEncodingPreference = definite
    /\ output = << >>
    /\ runtime = "TextEncoder"

NextNesting == CallGetOctetString \/ CallGetBitString \/ CallFromBytes

SpecNesting == InitNesting /\ [][NextNesting]_vars

\* C15: constructed fragments nested 6 deep make deconstruct and the
\* bitString getter fail with RecursionError, and indefinite-length elements
\* nested 6 deep make fromBytes fail with RecursionError; nested at most 5
\* deep, fragments with matching tags and well-formed leaves are read and
\* indefinite-length elements are parsed whole
C15_NestingLimit ==
    /\ (pc \in {"octets", "bits", "decoded"} /\ Nesting(input) > nestingRecursionLimit)
          => ret.kind = "RecursionError"
    /\ (pc = "octets" /\ Nesting(input) <= nestingRecursionLimit /\ Matching(input))
          => ret.kind = "ok"
    /\ (pc = "bits" /\ Nesting(input) <= nestingRecursionLimit /\ Matching(input)
                    /\ WellFormedLeaves(input))
          => ret.kind = "ok"
    /\ (pc = "decoded" /\ Nesting(input) <= nestingRecursionLimit)
          => (ret.kind = "ok" /\ ret.n = Len(bytes))

\* C15 for the getters alone
C15_GetterNestingLimit ==
    /\ (pc \in {"octets", "bits"} /\ Nesting(input) > nestingRecursionLimit)
          => ret.kind = "RecursionError"
    /\ (pc = "octets" /\ Nesting(input) <= nestingRecursionLimit /\ Matching(input))
          => ret.kind = "ok"
    /\ (pc = "bits" /\ Nesting(input) <= nestingRecursionLimit /\ Matching(input)
                    /\ WellFormedLeaves(input))
          => ret.kind = "ok"

\* fromBytes accepts indefinite-length elements nested at most 4 deep
C15_FromBytesNestingLimit ==
    pc = "decoded"
        => IF Nesting(input) < nestingRecursionLimit
           THEN ret.kind = "ok" /\ ret.n = Len(bytes)
           ELSE ret.kind = "RecursionError"
----------------------------------------------------------------------------
(* The accessors of the scalar types *)

\* set boolean (value); the variant stores the octet 0x01 for true
setBooleanBit(this, value) ==
    [this EXCEPT !.value = <<IF value THEN 1 ELSE 0>>]

setBoolean(this, value) ==
    [this EXCEPT !.value = <<IF value THEN 255 ELSE 0>>]

\* the size test of the boolean getter; the variant lets the empty value
\* through
moreThanOneByte(value) == Len(value) > 1

notOneByte(value) == Len(value) # 1

\* value[i] of a Uint8Array, undefined (here -1) past its end
ByteAt(value, i) == IF i < Len(value) THEN value[i + 1] ELSE -1

\* get boolean ()
getBoolean(this) ==
    IF this.construction # primitive
    THEN Fail("ConstructionError")
    ELSE IF notOneByte(this.value)
    THEN Fail("SizeError")
    ELSE Value(ByteAt(this.value, 0) # 0)

\* elem.boolean = input.boolean
CallSetBoolean ==
    /\ pc = "built"
    /\ input.type = "boolean"
    /\ elem' = setBoolean(elem, input.boolean)
    /\ pc' = "stored"
    /\ UNCHANGED <<bytes, fresh, ret, children, got, length, lengthOctets,
                   lengthEncodingPreference, input, output, runtime>>

\* output = elem.boolean
CallGetBoolean ==
    /\ pc \in {"built", "stored"}
    /\ LET r == getBoolean(elem)
       IN  /\ output' = r.value
           /\ ret' = [kind |-> r.kind, n |-> 0, maxIndex |-> -1]
    /\ pc' = IF pc = "built" THEN "boolean" ELSE "booleanStored"
    /\ UNCHANGED <<elem, bytes, fresh, children, got, length, lengthOctets,
                   lengthEncodingPreference, input, runtime>>

\* Number(match[i]) on a run of decimal digits
RECURSIVE Number(_)
Number(digits) ==
    IF Len(digits) = 0
    THEN 0
    ELSE Number(SubSeq(digits, 1, Len(digits) - 1)) * 10 + (digits[Len(digits)] - 48)

\* the characters from index from to index to are decimal digits
AreDigits(string, from, to) == \A i \in from..to : string[i] \in 48..57

\* utcTimeRegex and generalizedTimeRegex of values.ts, as the format the
\* specification gives: YYMMDDhhmmssZ and YYYYMMDDhhmmssZ
utcTimeRegex(dateString) ==
    Len(dateString) = 13 /\ AreDigits(dateString, 1, 12) /\ dateString[13] = 90

generalizedTimeRegex(dateString) ==
    Len(dateString) = 15 /\ AreDigits(dateString, 1, 14) /\ dateString[15] = 90

\* ASN1Element.validateDateTime, as the ranges the specification gives, on
\* the month counted from 0
validateDateTime(year, month, date, hours, minutes, seconds) ==
    /\ month \in 0..11
    /\ date \in 1..31
    /\ hours \in 0..23
    /\ minutes \in 0..59
    /\ seconds \in 0..59

\* the end of both time getters: the six numbers of the string from index
\* first, validated, as the fields handed to the setUTC... calls of the Date
dateFields(dateString, year, first) ==
    LET month == Number(SubSeq(dateString, first, first + 1)) - 1
        date == Number(SubSeq(dateString, first + 2, first + 3))
        hours == Number(SubSeq(dateString, first + 4, first + 5))
        minutes == Number(SubSeq(dateString, first + 6, first + 7))
        seconds == Number(SubSeq(dateString, first + 8, first + 9))
    IN  IF ~validateDateTime(year, month, date, hours, minutes, seconds)
        THEN Fail("ASN1Error")
        ELSE Value([year |-> year, month |-> month, date |-> date,
                    hours |-> hours, minutes |-> minutes, seconds |-> seconds])

\* the string both time getters decode: of the deconstructed octets under
\* TextEncoder, of this.value under Buffer; the error deconstruct threw
dateString(this, valueBytes, global) ==
    IF valueBytes.kind # "ok"
    THEN valueBytes
    ELSE IF global = "TextEncoder"
    THEN Value(decodeUtf8(valueBytes.value))
    ELSE Value(decodeUtf8(this.value))

\* Number(match[1]) of get utcTime, made a year of this or of the last century
utcYear(yy) == IF yy < 70 THEN 2000 + yy ELSE 1900 + yy

\* get utcTime () from the match of utcTimeRegex on
utcTimeOf(string) ==
    IF string.kind # "ok"
    THEN string
    ELSE IF ~utcTimeRegex(string.value)
    THEN Fail("ASN1Error")
    ELSE dateFields(string.value, utcYear(Number(SubSeq(string.value, 1, 2))), 3)

\* get utcTime ()
getUtcTime(this, global) == utcTimeOf(dateString(this, deconstruct(this), global))

\* get generalizedTime () from the match of generalizedTimeRegex on
generalizedTimeOf(string) ==
    IF string.kind # "ok"
    THEN string
    ELSE IF ~generalizedTimeRegex(string.value)
    THEN Fail("ASN1Error")
    ELSE dateFields(string.value, Number(SubSeq(string.value, 1, 4)), 5)

\* get generalizedTime ()
getGeneralizedTime(this, global) ==
    generalizedTimeOf(dateString(this, deconstruct(this), global))

\* the integer a run of octets is in two's complement, most significant
\* octet first
RECURSIVE TwosComplement(_)
TwosComplement(octets) ==
    IF Len(octets) = 1
    THEN IF octets[1] >= 128 THEN octets[1] - 256 ELSE octets[1]
    ELSE TwosComplement(SubSeq(octets, 1, Len(octets) - 1)) * 256 + octets[Len(octets)]

\* get integer () and get enumerated (), which ber.ts inherits: no value of
\* zero octets, none wider than the machine word
getInteger(this) ==
    IF this.construction # primitive
    THEN Fail("ConstructionError")
    ELSE IF Len(this.value) = 0
    THEN Fail("ASN1Error")
    ELSE IF Len(this.value) > 4
    THEN Fail("OverflowError")
    ELSE Value(TwosComplement(this.value))

\* the arcs after the first two of an object identifier, in base 128 with
\* the high bit on every octet of an arc but its last
RECURSIVE Arcs(_, _, _)
Arcs(octets, i, acc) ==
    IF i > Len(octets)
    THEN << >>
    ELSE IF HighBit(octets[i])
    THEN Arcs(octets, i + 1, acc * 128 + (octets[i] - 128))
    ELSE <<acc * 128 + octets[i]>> \o Arcs(octets, i + 1, 0)

\* get objectIdentifier (), which ber.ts inherits: no value of zero octets,
\* no arc that starts with 0x80 or ends with the value
getObjectIdentifier(this) ==
    IF this.construction # primitive
    THEN Fail("ConstructionError")
    ELSE IF Len(this.value) = 0
    THEN Fail("ASN1Error")
    ELSE IF \E i \in 2..Len(this.value) :
                this.value[i] = 128 /\ ~HighBit(this.value[i - 1])
    THEN Fail("PaddingError")
    ELSE IF Len(this.value) > 1 /\ HighBit(this.value[Len(this.value)])
    THEN Fail("TruncationError")
    ELSE LET first == IF this.value[1] >= 80 THEN 2 ELSE this.value[1] \div 40
         IN  Value(<<first, this.value[1] - 40 * first>> \o Arcs(this.value, 2, 0))

\* the UTF-16 code units String.fromCharCode makes of a number: its low 16
\* bits
CodeUnit(number) == number % 65536

\* get universalString () from the line after const valueBytes =
\* this.deconstruct("UniversalString")
universalText(valueBytes) ==
    IF valueBytes.kind # "ok"
    THEN valueBytes
    ELSE IF Len(valueBytes.value) % 4 # 0
    THEN Fail("ASN1Error")
    ELSE Value([i \in 1..(Len(valueBytes.value) \div 4) |->
                  CodeUnit(ShiftLeft(valueBytes.value[4 * i - 3], 24)
                           + ShiftLeft(valueBytes.value[4 * i - 2], 16)
                           + ShiftLeft(valueBytes.value[4 * i - 1], 8)
                           + valueBytes.value[4 * i])])

\* get universalString ()
getUniversalString(this) == universalText(deconstruct(this))

\* get bmpString () from the line after const valueBytes =
\* this.deconstruct("BMPString"): the code units of the pairs of octets, as
\* TextDecoder("utf-16be") and, on the swapped octets, Buffer.toString
\* ("utf-16le") both give them when no pair is a surrogate
bmpText(valueBytes) ==
    IF valueBytes.kind # "ok"
    THEN valueBytes
    ELSE IF Len(valueBytes.value) % 2 # 0
    THEN Fail("ASN1Error")
    ELSE Value([i \in 1..(Len(valueBytes.value) \div 2) |->
                  valueBytes.value[2 * i - 1] * 256 + valueBytes.value[2 * i]])

\* get bmpString ()
getBmpString(this) == bmpText(deconstruct(this))

\* output = elem.universalString
CallGetUniversalString ==
    /\ pc = "built"
    /\ LET r == getUniversalString(elem)
       IN  /\ output' = r.value
           /\ ret' = [kind |-> r.kind, n |-> 0, maxIndex |-> -1]
    /\ pc' = "universalString"
    /\ UNCHANGED <<elem, bytes, fresh, children, got, length, lengthOctets,
                   lengthEncodingPreference, input, runtime>>

\* output = elem.bmpString
CallGetBmpString ==
    /\ pc = "built"
    /\ LET r == getBmpString(elem)
       IN  /\ output' = r.value
           /\ ret' = [kind |-> r.kind, n |-> 0, maxIndex |-> -1]
    /\ pc' = "bmpString"
    /\ UNCHANGED <<elem, bytes, fresh, children, got, length, lengthOctets,
                   lengthEncodingPreference, input, runtime>>

\* output = elem.utcTime
CallGetUtcTime ==
    /\ pc = "built"
    /\ LET r == getUtcTime(elem, runtime)
       IN  /\ output' = r.value
           /\ ret' = [kind |-> r.kind, n |-> 0, maxIndex |-> -1]
    /\ pc' = "utcTime"
    /\ UNCHANGED <<elem, bytes, fresh, children, got, length, lengthOctets,
                   lengthEncodingPreference, input, runtime>>

\* output = elem.generalizedTime
CallGetGeneralizedTime ==
    /\ pc = "built"
    /\ LET r == getGeneralizedTime(elem, runtime)
       IN  /\ output' = r.value
           /\ ret' = [kind |-> r.kind, n |-> 0, maxIndex |-> -1]
    /\ pc' = "generalizedTime"
    /\ UNCHANGED <<elem, bytes, fresh, children, got, length, lengthOctets,
                   lengthEncodingPreference, input, runtime>>

\* output = elem.integer
CallGetInteger ==
    /\ pc = "built"
    /\ LET r == getInteger(elem)
       IN  /\ output' = r.value
           /\ ret' = [kind |-> r.kind, n |-> 0, maxIndex |-> -1]
    /\ pc' = "integer"
    /\ UNCHANGED <<elem, bytes, fresh, children, got, length, lengthOctets,
                   lengthEncodingPreference, input, runtime>>

\* output = elem.enumerated
CallGetEnumerated ==
    /\ pc = "built"
    /\ LET r == getInteger(elem)
       IN  /\ output' = r.value
           /\ ret' = [kind |-> r.kind, n |-> 0, maxIndex |-> -1]
    /\ pc' = "enumerated"
    /\ UNCHANGED <<elem, bytes, fresh, children, got, length, lengthOctets,
                   lengthEncodingPreference, input, runtime>>

\* output = elem.objectIdentifier
CallGetObjectIdentifier ==
    /\ pc = "built"
    /\ LET r == getObjectIdentifier(elem)
       IN  /\ output' = r.value
           /\ ret' = [kind |-> r.kind, n |-> 0, maxIndex |-> -1]
    /\ pc' = "objectIdentifier"
    /\ UNCHANGED <<elem, bytes, fresh, children, got, length, lengthOctets,
                   lengthEncodingPreference, input, runtime>>

----------------------------------------------------------------------------
(* Scalars: the boolean setter and the getters of the scalar types on an    *)
(* element of either construction with a value of up to MaxValueLen octets  *)
(* or a time string                                                         *)

\* the characters of a run of decimal digits, then Z
Zulu(digits) == [i \in 1..Len(digits) |-> digits[i] + 48] \o <<90>>

\* 700101000000Z, 701301000000Z (month 13), 19700101000000Z and a string
\* without its Z
TimeValues ==
    {Zulu(<<7, 0, 0, 1, 0, 1, 0, 0, 0, 0, 0, 0>>),
     Zulu(<<7, 0, 1, 3, 0, 1, 0, 0, 0, 0, 0, 0>>),
     Zulu(<<1, 9, 7, 0, 0, 1, 0, 1, 0, 0, 0, 0, 0, 0>>),
     SubSeq(Zulu(<<7, 0, 0, 1, 0, 1, 0, 0, 0, 0, 0, 0>>), 1, 12)}

\* one character and two on four octets, and one octet more
WideValues == {<<0, 0, 0, 65>>, <<0, 65, 0, 66>>, <<0, 0, 0, 65, 0>>}

ScalarElements ==
    [tagClass : {universal}, construction : {primitive, constructed},
     tagNumber : {endOfContent},
     value : ShortValues \cup TimeValues \cup WideValues,
     recursionCount : {0}]

InitScalars ==
    /\ pc = "built"
    /\ elem \in ScalarElements
    /\ input \in {[type |-> "boolean", boolean |-> b] : b \in BOOLEAN}
    /\ bytes = << >>
    /\ fresh = NewBERElement
    /\ ret = NoRet
    /\ children = << >>
    /\ got = << >>
    /\ length = 0
    /\ lengthOctets = << >>
    /\ lengthEncodingPreference = definite
    /\ output = << >>
    /\ runtime \in {"TextEncoder", "Buffer"}

NextScalars ==
    \/ CallSetBoolean
    \/ CallGetBoolean
    \/ CallGetBitString
    \/ CallGetUtcTime
    \/ CallGetGeneralizedTime
    \/ CallGetInteger
    \/ CallGetEnumerated
    \/ CallGetObjectIdentifier
    \/ CallGetUniversalString
    \/ CallGetBmpString

SpecScalars == InitScalars /\ [][NextScalars]_vars

\* C16: the boolean setter stores the one octet 0xFF for true and 0x00 for
\* false; the boolean getter fails with ConstructionError on a constructed
\* element whatever the size of its value, fails with SizeError on a
\* primitive element whose value is not one octet, and otherwise returns
\* false for the octet 0x00 and true for any other
C16_Boolean ==
    /\ pc = "stored" => elem.value = <<IF input.boolean THEN 255 ELSE 0>>
    /\ pc \in {"boolean", "booleanStored"}
          => IF elem.construction = constructed
             THEN ret.kind = "ConstructionError"
             ELSE IF Len(elem.value) # 1
             THEN ret.kind = "SizeError"
             ELSE ret.kind = "ok" /\ output = (elem.value # <<0>>)

\* the getter has returned true for an octet that is neither 0x00 nor 0xFF,
\* failed on the size and failed on the construction of a one-octet value
C16_Witness ==
    \/ pc = "boolean" /\ elem.construction = primitive /\ elem.value = <<1>>
                      /\ ret.kind = "ok" /\ output = TRUE
    \/ pc = "boolean" /\ elem.construction = primitive /\ Len(elem.value) = 2
                      /\ ret.kind = "SizeError"
    \/ pc = "booleanStored" /\ elem.construction = constructed
                      /\ ret.kind = "ConstructionError"

\* C17: on a primitive element whose value is zero octets the getters
\* boolean, bitString, utcTime, generalizedTime, integer, enumerated and
\* objectIdentifier fail and return no value
C17_ZeroOctets ==
    (/\ pc \in {"boolean", "bits", "utcTime", "generalizedTime", "integer",
                "enumerated", "objectIdentifier"}
     /\ elem.construction = primitive
     /\ Len(elem.value) = 0)
        => (ret.kind \notin {"ok", "none"} /\ output = << >>)

\* a time getter has failed on the empty primitive value
C17_Witness ==
    /\ pc = "utcTime"
    /\ elem.construction = primitive
    /\ Len(elem.value) = 0
    /\ ret.kind = "ASN1Error"
----------------------------------------------------------------------------
(* CERElement: toBytes, the setters encode uses, encode, fromSequence,      *)
(* fromSet and inner.  An element of the class has the fields of            *)
(* NewBERElement; a JavaScript value is a record of its type and what the   *)
(* encoders read of it.                                                     *)

\* the tag numbers of ASN1UniversalType that encode and the constructors use
ASN1UniversalType ==
    [endOfContent |-> 0, boolean |-> 1, integer |-> 2, bitString |-> 3,
     octetString |-> 4,
     nill |-> 5, objectIdentifier |-> 6, realNumber |-> 9, utf8String |-> 12,
     sequence |-> 16, set |-> 17, generalizedTime |-> 24]

\* CERElement.toBytes: the definite form for a primitive element, the
\* indefinite form and two zero octets for a constructed one
cerToBytes(this) ==
    toBytes(this, IF this.construction = primitive THEN definite ELSE indefinite)

\* encodeSequence (value): the encodings of the elements one after the other
encodeSequence(value) ==
    Concat([k \in 1..Len(value) |-> cerToBytes(value[k])])

\* longest value CER leaves in one piece
FragmentSize == 1000

\* splitOctetsCanonically (value): pieces of FragmentSize octets and the rest
splitOctetsCanonically(value) ==
    [k \in 1..((Len(value) + FragmentSize - 1) \div FragmentSize) |->
        SubSeq(value, (k - 1) * FragmentSize + 1,
               IF k * FragmentSize < Len(value) THEN k * FragmentSize ELSE Len(value))]

\* set unfragmentedValue (value)
setUnfragmentedValue(this, value) ==
    IF Len(value) <= FragmentSize
    THEN [this EXCEPT !.construction = primitive, !.value = value]
    ELSE [this EXCEPT
            !.construction = constructed,
            !.value = encodeSequence(
                [k \in 1..Len(splitOctetsCanonically(value)) |->
                    [NewBERElement EXCEPT
                        !.tagClass = this.tagClass,
                        !.tagNumber = this.tagNumber,
                        !.value = splitOctetsCanonically(value)[k]]])]

\* the value octets the setters of the scalar types store: encodeBoolean, the
\* integer setter (here for numbers of at most 16 bits), encodeReal (here
\* for a mantissa of one octet and an exponent of one octet in base 2), the
\* objectIdentifier setter (here for arcs below 128 after the second),
\* encodeGeneralizedTime and convertTextToBytes (here for ASCII text)
encodedScalar(value) ==
    CASE value.type = "boolean" -> <<IF value.boolean THEN 255 ELSE 0>>
      [] value.type = "integer" ->
            IF value.integer \in -128..127
            THEN <<value.integer % 256>>
            ELSE <<(value.integer \div 256) % 256, value.integer % 256>>
      [] value.type = "real" ->
            <<128 + (IF value.negative THEN 64 ELSE 0), value.exponent % 256,
              value.mantissa>>
      [] value.type = "ObjectIdentifier" ->
            <<40 * value.arcs[1] + value.arcs[2]>>
                \o SubSeq(value.arcs, 3, Len(value.arcs))
      [] value.type = "Date" -> Zulu(value.digits)
      [] value.type = "string" -> value.text

\* encode (value): the element left and whether the call threw
RECURSIVE encode(_, _)
encode(this, value) ==
    LET \* the elements the Array and Set branches make of the entries
        subs == [k \in 1..Len(value.items) |->
                    IF value.type = "Set" /\ value.items[k].type = "ASN1Element"
                    THEN Return(value.items[k].element, 0, -1)
                    ELSE encode(NewBERElement, value.items[k])]
        \* the element when the sequence setter is reached with construction
        \* and tag number already assigned in that
        collected(that) ==
            IF \E k \in 1..Len(subs) : subs[k].kind # "ok"
            THEN Throw(that, "ASN1Error", -1)
            ELSE Return([that EXCEPT
                           !.value = encodeSequence([k \in 1..Len(subs) |-> subs[k].el])],
                        0, -1)
        tagged(number) == [this EXCEPT !.tagNumber = number]
    IN  CASE value.type = "undefined" -> Return([this EXCEPT !.value = << >>], 0, -1)
          [] value.type = "boolean" ->
                Return([tagged(ASN1UniversalType.boolean) EXCEPT
                           !.value = encodedScalar(value)], 0, -1)
          [] value.type = "integer" ->
                Return([tagged(ASN1UniversalType.integer) EXCEPT
                           !.value = encodedScalar(value)], 0, -1)
          [] value.type = "real" ->
                Return([tagged(ASN1UniversalType.realNumber) EXCEPT
                           !.value = encodedScalar(value)], 0, -1)
          [] value.type = "string" ->
                Return(setUnfragmentedValue(tagged(ASN1UniversalType.utf8String),
                                            encodedScalar(value)), 0, -1)
          [] value.type = "null" ->
                Return([tagged(ASN1UniversalType.nill) EXCEPT !.value = << >>], 0, -1)
          [] value.type = "Uint8Array" ->
                Return(setUnfragmentedValue(tagged(ASN1UniversalType.octetString),
                                            value.octets), 0, -1)
          [] value.type = "ASN1Element" ->
                Return([this EXCEPT !.construction = constructed,
                                    !.value = encodeSequence(<<value.element>>)], 0, -1)
          [] value.type = "Set" ->
                collected([this EXCEPT !.construction = constructed])
          [] value.type = "ObjectIdentifier" ->
                Return([tagged(ASN1UniversalType.objectIdentifier) EXCEPT
                           !.value = encodedScalar(value)], 0, -1)
          [] value.type = "Array" ->
                collected([tagged(ASN1UniversalType.sequence) EXCEPT
                              !.construction = constructed])
          [] value.type = "Date" ->
                Return([this EXCEPT !.value = encodedScalar(value)], 0, -1)
          [] OTHER -> Throw(this, "ASN1Error", -1)

\* elem.encode(input)
CallEncode ==
    /\ pc = "fresh"
    /\ LET r == encode(elem, input)
       IN  /\ elem' = r.el
           /\ ret' = [kind |-> r.kind, n |-> 0, maxIndex |-> -1]
    /\ pc' = "encoded"
    /\ UNCHANGED <<bytes, fresh, children, got, length, lengthOctets,
                   lengthEncodingPreference, input, output, runtime>>
----------------------------------------------------------------------------
(* Encoding JavaScript values: encode on a new CERElement for scalars of    *)
(* every type and for arrays and sets of up to MaxChildren of them          *)

\* scalars of every type encode tells apart, of a type typeof does not know
\* to encode (symbol) and of a class it does not (Map); a number is of type
\* integer or real as Number.isInteger finds it; a Date is its digits
EncodableScalars ==
    {[type |-> t] : t \in {"undefined", "null", "symbol", "Map"}}
    \cup {[type |-> "boolean", boolean |-> b] : b \in BOOLEAN}
    \cup {[type |-> "integer", integer |-> n] : n \in {0, -1, 127, 128, -129}}
    \cup {[type |-> "real", negative |-> FALSE, mantissa |-> 1, exponent |-> -1],
          [type |-> "real", negative |-> TRUE, mantissa |-> 3, exponent |-> -1]}
    \cup {[type |-> "string", text |-> s] : s \in {<< >>, <<97>>}}
    \cup {[type |-> "Uint8Array", octets |-> v] : v \in {<< >>, <<1, 2>>}}
    \cup {[type |-> "ASN1Element", element |-> e] :
             e \in {NewBERElement,
                    [NewBERElement EXCEPT !.tagNumber = 4, !.value = <<1>>]}}
    \cup {[type |-> "ObjectIdentifier", arcs |-> a] : a \in {<<1, 2>>, <<2, 5, 4, 3>>}}
    \cup {[type |-> "Date", digits |-> <<1, 9, 7, 0, 0, 1, 0, 1, 0, 0, 0, 0, 0, 0>>]}

\* the scalars, a Uint8Array too long for one fragment, and the arrays and
\* sets of scalars (a set holds no value twice)
EncodableValues ==
    EncodableScalars
    \cup {[type |-> "Uint8Array", octets |-> [i \in 1..(FragmentSize + 1) |-> 0]]}
    \cup {[type |-> "Array", items |-> s] :
             s \in UNION {[1..n -> EncodableScalars] : n \in 0..MaxChildren}}
    \cup {[type |-> "Set", items |-> s] :
             s \in {q \in UNION {[1..n -> EncodableScalars] : n \in 0..MaxChildren} :
                       \A i, j \in 1..Len(q) : q[i] = q[j] => i = j}}

InitEncode ==
    /\ pc = "fresh"
    /\ elem = NewBERElement
    /\ input \in EncodableValues
    /\ bytes = << >>
    /\ fresh = NewBERElement
    /\ ret = NoRet
    /\ children = << >>
    /\ got = << >>
    /\ length = 0
    /\ lengthOctets = << >>
    /\ lengthEncodingPreference = definite
    /\ output = << >>
    /\ runtime = "TextEncoder"

NextEncode == CallEncode

SpecEncode == InitEncode /\ [][NextEncode]_vars

\* the universal type the specification gives to every shape of value
ShapeType ==
    [boolean |-> "boolean", integer |-> "integer", real |-> "realNumber",
     string |-> "utf8String", null |-> "nill", Uint8Array |-> "octetString",
     Array |-> "sequence", Set |-> "set", Date |-> "generalizedTime",
     ObjectIdentifier |-> "objectIdentifier"]

\* C18: encode on a fresh element leaves the universal class and the tag
\* number of the shape of the value: BOOLEAN for a boolean, INTEGER for an
\* integer, REAL for another number, UTF8String for a string, NULL for
\* null, OCTET STRING for a Uint8Array, SEQUENCE for an array, SET for a
\* Set, GeneralizedTime for a Date, OBJECT IDENTIFIER for an ObjectIdentifier
C18_EncodeTag ==
    (pc = "encoded" /\ input.type \in DOMAIN ShapeType)
        => /\ elem.tagClass = universal
           /\ elem.tagNumber = ASN1UniversalType[ShapeType[input.type]]

\* C18 for the shapes other than Set and Date
C18_EncodeTagButSetAndDate ==
    (pc = "encoded" /\ input.type \in DOMAIN ShapeType \ {"Set", "Date"})
        => /\ elem.tagClass = universal
           /\ elem.tagNumber = ASN1UniversalType[ShapeType[input.type]]
----------------------------------------------------------------------------
(* CERElement.fromSequence, CERElement.fromSet and CERElement.inner         *)

\* a constructor that assigns the tag class and the construction only
constructedWithoutTag(tagClass, construction, tagNumber, value) ==
    [encode(NewBERElement, value).el EXCEPT
        !.tagClass = tagClass, !.construction = construction]

\* new CERElement(tagClass, construction, tagNumber, value): encode runs
\* first, then the three arguments are assigned over what it left
newCERElement(tagClass, construction, tagNumber, value) ==
    [encode(NewBERElement, value).el EXCEPT
        !.tagClass = tagClass, !.construction = construction,
        !.tagNumber = tagNumber]

\* Boolean(element): null and undefined are falsy, an object is truthy
Boolean(element) == element.type \notin {"null", "undefined"}

\* sequence.filter((element) => Boolean(element))
filter(sequence) == SelectSeq(sequence, Boolean)

\* set sequence (value) of CERElement
cerSetSequence(this, value) ==
    [this EXCEPT !.value = encodeSequence(value), !.construction = constructed]

\* set set (value) of CERElement
cerSetSet(this, value) == cerSetSequence(this, value)

\* CERElement.fromSequence (sequence)
fromSequence(sequence) ==
    LET made == newCERElement(universal, constructed, ASN1UniversalType.sequence,
                              [type |-> "undefined"])
        kept == filter(sequence)
    IN  cerSetSequence(made, [k \in 1..Len(kept) |-> kept[k].element])

\* CERElement.fromSet (set)
fromSet(set) ==
    LET made == newCERElement(universal, constructed, ASN1UniversalType.set,
                              [type |-> "undefined"])
        kept == filter(set)
    IN  cerSetSet(made, [k \in 1..Len(kept) |-> kept[k].element])

\* get inner (): the element returned, or the error thrown
getInner(this) ==
    IF this.construction # constructed
    THEN Throw(NewBERElement, "ConstructionError", -1)
    ELSE LET read == fromBytes(NewBERElement, this.value)
         IN  IF read.kind # "ok"
             THEN Throw(NewBERElement, read.kind, -1)
             ELSE IF read.n # Len(this.value)
             THEN Throw(NewBERElement, "ConstructionError", -1)
             ELSE Return(read.el, read.n, -1)

\* set inner (value)
setInner(this, value) ==
    [this EXCEPT !.construction = constructed, !.value = cerToBytes(value)]

\* elem = CERElement.fromSequence(children)
CallFromSequence ==
    /\ pc = "fresh"
    /\ elem' = fromSequence(children)
    /\ pc' = "sequence"
    /\ UNCHANGED <<bytes, fresh, ret, children, got, length, lengthOctets,
                   lengthEncodingPreference, input, output, runtime>>

\* elem = CERElement.fromSet(children)
CallFromSet ==
    /\ pc = "fresh"
    /\ elem' = fromSet(children)
    /\ pc' = "set"
    /\ UNCHANGED <<bytes, fresh, ret, children, got, length, lengthOctets,
                   lengthEncodingPreference, input, output, runtime>>

\* elem.inner = input.child
CallSetInner ==
    /\ pc = "fresh"
    /\ elem' = setInner(elem, input.child)
    /\ pc' = "wrapped"
    /\ UNCHANGED <<bytes, fresh, ret, children, got, length, lengthOctets,
                   lengthEncodingPreference, input, output, runtime>>

\* fresh = elem.inner
CallGetInner ==
    /\ pc \in {"fresh", "wrapped"}
    /\ LET r == getInner(elem)
       IN  /\ fresh' = r.el
           /\ ret' = [kind |-> r.kind, n |-> r.n, maxIndex |-> -1]
    /\ pc' = (IF pc = "fresh" THEN "inner" ELSE "unwrapped")
    /\ UNCHANGED <<elem, bytes, children, got, length, lengthOctets,
                   lengthEncodingPreference, input, output, runtime>>
----------------------------------------------------------------------------
(* The convenience constructors and explicit tagging: fromSequence and      *)
(* fromSet on every list of at most MaxChildren entries, inner read from    *)
(* an element whose value is the encoding of a child, whole, cut short or   *)
(* followed by more octets, and inner assigned and read back                *)

\* the elements put in the lists and wrapped by inner: primitive and
\* constructed, empty and not, short-form and long-form tag number
InnerChildren ==
    {[NewBERElement EXCEPT !.tagNumber = 4],
     [NewBERElement EXCEPT !.tagNumber = 4, !.value = <<0, 0>>],
     [NewBERElement EXCEPT !.construction = constructed, !.tagNumber = 16],
     [NewBERElement EXCEPT !.construction = constructed, !.tagNumber = 16,
                           !.value = <<4, 0>>],
     [NewBERElement EXCEPT !.construction = constructed, !.tagNumber = 4,
                           !.value = <<4, 2, 0, 0>>],
     [NewBERElement EXCEPT !.tagClass = context, !.tagNumber = 31,
                           !.value = <<1>>]}

\* an entry of the list handed to fromSequence and fromSet
Entries ==
    {[type |-> "null"], [type |-> "undefined"]}
    \cup {[type |-> "ASN1Element", element |-> e] : e \in InnerChildren}

\* octets that follow the child in the value inner is read from
TrailingOctets == {<< >>, <<0>>, <<4, 0>>}

\* how the value inner is read from is made: the first cut octets of the
\* encoding of child, and after the whole encoding the octets extra
InnerValues ==
    {[child |-> c, cut |-> k, extra |-> << >>] :
        c \in InnerChildren, k \in 0..8}
    \cup {[child |-> c, cut |-> 8, extra |-> x] :
        c \in InnerChildren, x \in TrailingOctets}

\* the element inner is read from
Host(made, construction) ==
    [NewBERElement EXCEPT
        !.tagClass = context,
        !.construction = construction,
        !.value = Slice(cerToBytes(made.child), 0, made.cut) \o made.extra]

InitInner ==
    /\ pc = "fresh"
    /\ input \in InnerValues
    /\ \E construction \in {primitive, constructed} :
           elem = Host(input, construction)
    /\ children \in UNION {[1..n -> Entries] : n \in 0..MaxChildren}
    /\ bytes = << >>
    /\ fresh = NewBERElement
    /\ ret = NoRet
    /\ got = << >>
    /\ length = 0
    /\ lengthOctets = << >>
    /\ lengthEncodingPreference = definite
    /\ output = << >>
    /\ runtime = "TextEncoder"

NextInner == CallFromSequence \/ CallFromSet \/ CallSetInner \/ CallGetInner

SpecInner == InitInner /\ [][NextInner]_vars

\* the encodings of the entries that are elements, one after the other
RECURSIVE PresentEncodings(_)
PresentEncodings(entries) ==
    IF Len(entries) = 0
    THEN << >>
    ELSE (IF Head(entries).type = "ASN1Element"
          THEN cerToBytes(Head(entries).element)
          ELSE << >>) \o PresentEncodings(Tail(entries))

\* C19: fromSequence and fromSet return a universal, constructed element of
\* tag number SEQUENCE, respectively SET, whose value is the concatenation
\* of toBytes() of the entries that are neither null nor undefined, in the
\* order of the input
C19_Constructors ==
    (pc \in {"sequence", "set"})
        => /\ elem.tagClass = universal
           /\ elem.construction = constructed
           /\ elem.tagNumber = (IF pc = "sequence"
                                THEN ASN1UniversalType.sequence
                                ELSE ASN1UniversalType.set)
           /\ elem.value = PresentEncodings(children)

\* fromSequence has dropped a hole that came before an element
C19_Witness ==
    /\ pc = "sequence"
    /\ \E i, j \in 1..Len(children) :
          /\ i < j
          /\ children[i].type \in {"null", "undefined"}
          /\ children[j].type = "ASN1Element"
    /\ elem.value # << >>

\* the value inner was read from is the whole encoding of one element
OneElement == input.cut >= Len(cerToBytes(input.child)) /\ input.extra = << >>

\* the value inner was read from stops before the end of the encoding
CutShort == input.cut < Len(cerToBytes(input.child))

\* octets follow the encoding in the value inner was read from
OctetsRemain == input.cut >= Len(cerToBytes(input.child)) /\ input.extra # << >>

\* what the claim says of the inner getter and of the inner setter, in a
\* state where the child is in Among and fromBytes is trusted on a value
\* cut short only when strict is false
C20_Body(Among, strict) ==
    /\ (pc = "inner" /\ input.child \in Among)
          => /\ ret.kind = "ok"
                   => /\ elem.construction = constructed
                      /\ IF strict THEN OneElement ELSE ~OctetsRemain
             /\ elem.construction = primitive => ret.kind = "ConstructionError"
             /\ (elem.construction = constructed /\ OctetsRemain)
                   => ret.kind = "ConstructionError"
             /\ (elem.construction = constructed /\ CutShort /\ strict)
                   => ret.kind \notin {"ok", "none"}
             /\ (elem.construction = constructed /\ OneElement)
                   => (ret.kind = "ok" /\ SameElement(fresh, input.child))
    /\ (pc = "wrapped" /\ input.child \in Among)
          => elem.construction = constructed
    /\ (pc = "unwrapped" /\ input.child \in Among)
          => (ret.kind = "ok" /\ SameElement(fresh, input.child))

\* C20: the inner getter returns a child only when the element is
\* constructed and its value is exactly one encoded element; it fails with
\* ConstructionError when the element is primitive or when octets remain
\* after the first child, and fails when the value is shorter than one
\* complete encoding; after inner = c the element is constructed and the
\* inner getter returns an element equal to c
C20_Inner == C20_Body(InnerChildren, TRUE)

\* the same for the children whose tag number is not 31, leaving aside the
\* values cut short that fromBytes takes for a whole indefinite-length
\* element
C20_InnerOfDecodable ==
    C20_Body({c \in InnerChildren : c.tagNumber # 31}, FALSE)

\* the same for the children whose tag number is not 31
C20_InnerOfShortTags ==
    C20_Body({c \in InnerChildren : c.tagNumber # 31}, TRUE)
----------------------------------------------------------------------------
(* CERElement: the string accessors that fragment long values              *)

\* set octetString (value) of CERElement
cerSetOctetString(this, value) == setUnfragmentedValue(this, value)

\* CERElement.deconstruct, the text of BERElement.deconstruct, and
\* get octetString () of CERElement
cerDeconstruct(this) == deconstruct(this)

cerGetOctetString(this) == cerDeconstruct(this)

\* elem.octetString = input.octets
CallCerSetOctetString ==
    /\ pc = "fresh"
    /\ input.type = "Uint8Array"
    /\ elem' = cerSetOctetString(elem, input.octets)
    /\ pc' = "fragmented"
    /\ UNCHANGED <<bytes, fresh, ret, children, got, length, lengthOctets,
                   lengthEncodingPreference, input, output, runtime>>

\* output = elem.octetString
CallCerGetOctetString ==
    /\ pc = "fragmented"
    /\ LET r == cerGetOctetString(elem)
       IN  /\ output' = r.value
           /\ ret' = [kind |-> r.kind, n |-> 0, maxIndex |-> -1]
    /\ pc' = "defragmented"
    /\ UNCHANGED <<elem, bytes, fresh, children, got, length, lengthOctets,
                   lengthEncodingPreference, input, runtime>>

\* elem.set = children
CallCerSetSet ==
    /\ pc \in {"unset", "otherSet"}
    /\ elem' = cerSetSet(elem, children)
    /\ pc' = (IF pc = "unset" THEN "oneSet" ELSE "bothSet")
    /\ UNCHANGED <<bytes, fresh, ret, children, got, length, lengthOctets,
                   lengthEncodingPreference, input, output, runtime>>

\* fresh.set = got, the same elements in another order
CallCerSetSetReordered ==
    /\ pc \in {"unset", "oneSet"}
    /\ fresh' = cerSetSet(fresh, got)
    /\ pc' = (IF pc = "unset" THEN "otherSet" ELSE "bothSet")
    /\ UNCHANGED <<elem, bytes, ret, children, got, length, lengthOctets,
                   lengthEncodingPreference, input, output, runtime>>

\* the weight of bit i of an array of booleans: weight when the bit is
\* there and true
BitWeight(value, i, weight) ==
    IF i < Len(value) /\ value[i + 1] THEN weight ELSE 0

\* encodeBitString (value): the count of unused bits, then the bits, eight
\* to an octet, most significant first, the last octet padded with zeros
encodeBitString(value) ==
    <<(8 - (Len(value) % 8)) % 8>>
    \o [k \in 1..((Len(value) + 7) \div 8) |->
          BitWeight(value, 8 * (k - 1), 128) + BitWeight(value, 8 * (k - 1) + 1, 64)
          + BitWeight(value, 8 * (k - 1) + 2, 32) + BitWeight(value, 8 * (k - 1) + 3, 16)
          + BitWeight(value, 8 * (k - 1) + 4, 8) + BitWeight(value, 8 * (k - 1) + 5, 4)
          + BitWeight(value, 8 * (k - 1) + 6, 2) + BitWeight(value, 8 * (k - 1) + 7, 1)]

\* decodeBitString (value) of the distinguished rules: no value without a
\* first octet, a first octet of at most 7, nothing unused without a second
\* octet, unused bits that are zero; the bits but the unused ones
decodeBitString(value) ==
    IF Len(value) = 0
    THEN Fail("ASN1Error")
    ELSE IF value[1] > 7
    THEN Fail("ASN1Error")
    ELSE IF Len(value) = 1 /\ value[1] # 0
    THEN Fail("ASN1Error")
    ELSE IF Len(value) > 1 /\ value[Len(value)] % Pow2(value[1]) # 0
    THEN Fail("ASN1Error")
    ELSE Value([i \in 1..(8 * (Len(value) - 1) - value[1]) |->
                   Bits(value[((i - 1) \div 8) + 2])[((i - 1) % 8) + 1]])

\* set bitString (value) of CERElement
cerSetBitString(this, value) == setUnfragmentedValue(this, encodeBitString(value))

RECURSIVE cerGetBitString(_), cerBitStringLoop(_, _, _, _), cerBitStringPush(_, _, _, _, _)

\* the second substrings.forEach of get bitString of CERElement, from
\* substring k on
cerBitStringLoop(this, substrings, k, appendy) ==
    IF k > Len(substrings)
    THEN Value(appendy)
    ELSE IF invalidTag(substrings[k], this)
    THEN Fail("ConstructionError")
    ELSE cerBitStringPush(this, substrings, k, appendy,
                          cerGetBitString([substrings[k] EXCEPT
                              !.recursionCount = this.recursionCount + 1]))

\* appendy = appendy.concat(substring.bitString) and the rest of the loop
cerBitStringPush(this, substrings, k, appendy, bits) ==
    IF bits.kind # "ok"
    THEN bits
    ELSE cerBitStringLoop(this, substrings, k + 1, appendy \o bits.value)

\* get bitString () of CERElement from the line after
\* const substrings = this.sequence
cerBitStringSubstrings(this, substrings) ==
    IF substrings.kind # "ok"
    THEN Fail(substrings.kind)
    ELSE IF \E k \in 1..(Len(substrings.els) - 1) :
                nonZeroFirstByte(substrings.els[k])
    THEN Fail("ASN1Error")
    ELSE cerBitStringLoop(this, substrings.els, 1, << >>)

\* get bitString () of CERElement
cerGetBitString(this) ==
    IF this.construction = primitive
    THEN decodeBitString(this.value)
    ELSE IF (this.recursionCount + 1) > nestingRecursionLimit
    THEN Fail("RecursionError")
    ELSE cerBitStringSubstrings(this, getSequence(this))

\* elem.bitString = input.bits
CallCerSetBitString ==
    /\ pc = "fresh"
    /\ input.type = "bits"
    /\ elem' = cerSetBitString(elem, input.bits)
    /\ pc' = "bitsFragmented"
    /\ UNCHANGED <<bytes, fresh, ret, children, got, length, lengthOctets,
                   lengthEncodingPreference, input, output, runtime>>

\* the state after output = elem.bitString: bits is what the getter
\* returned or threw
CerBitStringRead(bits) ==
    /\ output' = bits.value
    /\ ret' = [kind |-> bits.kind, n |-> 0, maxIndex |-> -1]

\* output = elem.bitString
CallCerGetBitString ==
    /\ pc = "bitsFragmented"
    /\ CerBitStringRead(cerGetBitString(elem))
    /\ pc' = "bitsDefragmented"
    /\ UNCHANGED <<elem, bytes, fresh, children, got, length, lengthOctets,
                   lengthEncodingPreference, input, runtime>>
----------------------------------------------------------------------------
(* Fragmentation and sets: the CER string setters on values of lengths at  *)
(* both sides of FragmentSize and of its multiples, under tags of both     *)
(* forms; the set setter on the same elements in two orders                *)

\* n octets that differ from their neighbours
Octets(n) == [i \in 1..n |-> (7 * i) % 256]

\* lengths of the values: none, one fragment, two and three
StringLengths ==
    {0, 1, FragmentSize - 1, FragmentSize, FragmentSize + 1,
     FragmentSize + 127, FragmentSize + 128, 2 * FragmentSize,
     2 * FragmentSize + 1, 2 * FragmentSize + 500}

\* the elements the setters are called on: of either construction, with a
\* short-form and a long-form tag number
StringHosts ==
    {newCERElement(tagClass, construction, tagNumber, [type |-> "undefined"]) :
        tagClass \in {universal, context},
        construction \in {primitive, constructed},
        tagNumber \in {ASN1UniversalType.octetString, LongFormFloor}}

\* the orders a list can be put in
Reorderings(list) ==
    {[i \in 1..Len(list) |-> list[f[i]]] :
        f \in {g \in [1..Len(list) -> 1..Len(list)] :
                  \A i, j \in 1..Len(list) : g[i] = g[j] => i = j}}

\* a string to set, or a list of elements to set in two orders
\* the numbers of bits whose encodings are of lengths at both sides of
\* FragmentSize and of twice FragmentSize
BitLengths ==
    {0, 1, 8, 8 * (FragmentSize - 1), 8 * (FragmentSize - 1) + 1, 8 * FragmentSize,
     8 * 2 * FragmentSize - 3}

\* arrays of bits: all false, all true and every third one true
BitArrays ==
    {[i \in 1..n |-> FALSE] : n \in BitLengths}
    \cup {[i \in 1..n |-> TRUE] : n \in BitLengths}
    \cup {[i \in 1..n |-> i % 3 = 0] : n \in BitLengths}

InitCanonical ==
    /\ \/ /\ pc = "fresh"
          /\ elem \in StringHosts
          /\ input \in {[type |-> "Uint8Array", octets |-> Octets(n)] :
                           n \in StringLengths}
          /\ fresh = NewBERElement
          /\ children = << >>
          /\ got = << >>
       \/ /\ pc = "fresh"
          /\ elem \in {newCERElement(universal, construction,
                                     ASN1UniversalType.bitString, [type |-> "undefined"]) :
                           construction \in {primitive, constructed}}
          /\ input \in {[type |-> "bits", bits |-> b] : b \in BitArrays}
          /\ fresh = NewBERElement
          /\ children = << >>
          /\ got = << >>
       \/ /\ pc = "unset"
          /\ elem = newCERElement(universal, constructed, ASN1UniversalType.set,
                                  [type |-> "undefined"])
          /\ fresh = elem
          /\ input = [type |-> "undefined"]
          /\ children \in UNION {[1..n -> InnerChildren] : n \in 0..MaxChildren}
          /\ got \in Reorderings(children)
    /\ bytes = << >>
    /\ ret = NoRet
    /\ length = 0
    /\ lengthOctets = << >>
    /\ lengthEncodingPreference = definite
    /\ output = << >>
    /\ runtime = "TextEncoder"

NextCanonical ==
    \/ CallCerSetOctetString
    \/ CallCerGetOctetString
    \/ CallCerSetSet
    \/ CallCerSetSetReordered
    \/ CallCerSetBitString
    \/ CallCerGetBitString

SpecCanonical == InitCanonical /\ [][NextCanonical]_vars

\* the number of fragments of n octets
FragmentCount(n) == (n + FragmentSize - 1) \div FragmentSize

\* fragment k of octets: FragmentSize octets, the last one the remainder
FragmentOctets(octets, k) ==
    SubSeq(octets, (k - 1) * FragmentSize + 1,
           IF k < FragmentCount(Len(octets)) THEN k * FragmentSize ELSE Len(octets))

\* the encodings of the primitive children that carry the tag of this and
\* the fragments of octets
FragmentEncodings(this, octets) ==
    Concat([k \in 1..FragmentCount(Len(octets)) |->
               cerToBytes([tagClass |-> this.tagClass, construction |-> primitive,
                           tagNumber |-> this.tagNumber,
                           value |-> FragmentOctets(octets, k),
                           recursionCount |-> 0])])

\* what the claim says of the octetString setter and getter of CERElement,
\* for the elements whose tag number is in TagsRead
C21_Body(TagsRead) ==
    /\ (pc \in {"fragmented", "defragmented"} /\ Len(input.octets) <= FragmentSize)
          => /\ elem.construction = primitive
             /\ elem.value = input.octets
    /\ (pc \in {"fragmented", "defragmented"} /\ Len(input.octets) > FragmentSize)
          => /\ elem.construction = constructed
             /\ elem.value = FragmentEncodings(elem, input.octets)
    /\ (pc = "defragmented" /\ elem.tagNumber \in TagsRead)
          => (ret.kind = "ok" /\ output = input.octets)

\* C21: the octetString setter of CERElement leaves n <= 1000 octets as the
\* value of a primitive element, and makes of n > 1000 octets a constructed
\* element of ceil(n / 1000) primitive children with the tag class and tag
\* number of the element, of 1000 octets each but the last, which holds the
\* remainder; the getter then returns the n octets
C21_Fragmentation == C21_Body({ASN1UniversalType.octetString, LongFormFloor})

\* the same, the octets read back only under the short-form tag number
C21_FragmentationShortTag == C21_Body({ASN1UniversalType.octetString})

\* the tag of a comes before the tag of b, or is the same
TagOrdered(a, b) ==
    \/ a.tagClass < b.tagClass
    \/ a.tagClass = b.tagClass /\ a.tagNumber <= b.tagNumber

\* no two elements of the list carry the same tag
DistinctTags(list) ==
    \A i, j \in 1..Len(list) :
        (list[i].tagClass = list[j].tagClass /\ list[i].tagNumber = list[j].tagNumber)
            => i = j

\* C22: the set setter of CERElement encodes the elements in the order of
\* their tags: the same elements, of different tags, set in two orders give
\* the same value octets, the encodings of the elements one after the other
\* by tag
C22_SetOrder ==
    (pc = "bothSet" /\ DistinctTags(children))
        => /\ elem.value = fresh.value
           /\ \E ordered \in Reorderings(children) :
                 /\ \A i \in 1..(Len(ordered) - 1) :
                        TagOrdered(ordered[i], ordered[i + 1])
                 /\ elem.value = encodeSequence(ordered)

\* a getter of a type of fixed width has read a primitive element whose
\* value is not of that width
WrongSized ==
    /\ elem.construction = primitive
    /\ \/ pc = "universalString" /\ Len(elem.value) % 4 # 0
       \/ pc = "bmpString" /\ Len(elem.value) % 2 # 0
       \/ pc = "boolean" /\ Len(elem.value) # 1

\* C23: the universalString getter on a value whose length is not a
\* multiple of 4, the bmpString getter on a value whose length is not a
\* multiple of 2 and the boolean getter on a value that is not one octet
\* fail with SizeError
C23_SizeError == WrongSized => ret.kind = "SizeError"

\* the three getters fail on such a value, the boolean getter with SizeError
C23_WrongSizedFails ==
    WrongSized => /\ ret.kind = (IF pc = "boolean" THEN "SizeError" ELSE "ASN1Error")
                  /\ output = << >>
----------------------------------------------------------------------------
(* Buffers: a Uint8Array is a view of a buffer of the heap, an offset and   *)
(* a length; two arrays that view the same buffer see each other's writes. *)
(* The heap is a sequence of buffers, a buffer a sequence of octets; the    *)
(* value of an element is a view.                                           *)

\* the octets a view shows
Contents(heap, view) ==
    SubSeq(heap[view.buffer], view.offset + 1, view.offset + view.length)

\* the element with its value read through the heap
Deref(heap, this) == [this EXCEPT !.value = Contents(heap, this.value)]

\* Uint8Array.prototype.subarray(from, to): a view of the same buffer
subarray(heap, view, from, to) ==
    LET hi == IF to > view.length THEN view.length ELSE to
    IN  [heap |-> heap,
         view |-> [buffer |-> view.buffer, offset |-> view.offset + from,
                   length |-> IF hi <= from THEN 0 ELSE hi - from]]

\* Uint8Array.prototype.slice(from, to): a view of a new buffer that holds a
\* copy of the octets
slice(heap, view, from, to) ==
    [heap |-> Append(heap, Slice(Contents(heap, view), from, to)),
     view |-> [buffer |-> Len(heap) + 1, offset |-> 0,
               length |-> Len(Slice(Contents(heap, view), from, to))]]

\* view[i] = octet
WriteOctet(heap, view, i, octet) ==
    [heap EXCEPT ![view.buffer][view.offset + i + 1] = octet]

\* new Uint8Array(0): nothing can be written to it, so every one is the
\* view of the first buffer of the heap, which stays empty
EmptyView == [buffer |-> 1, offset |-> 0, length |-> 0]

\* new BERElement()
NewElementOn == [NewBERElement EXCEPT !.value = EmptyView]

\* the index in bytes after the value octets that fromBytes has read: the
\* octets read, less the end-of-contents octets of the indefinite form
valueEnd(buf, read) ==
    IF buf[fromBytesIdentifier(NewBERElement, buf).cursor + 1] = 128
    THEN read.n - 2
    ELSE read.n

\* this.value = bytes.slice(...) on the three return paths of fromBytes:
\* read is what fromBytes has made of the octets of bytes
fromBytesValue(heap, this, bytesView, read, end) ==
    IF read.kind # "ok"
    THEN [kind |-> read.kind, n |-> 0, heap |-> heap,
          el |-> [read.el EXCEPT !.value = this.value]]
    ELSE LET copy == slice(heap, bytesView, end - Len(read.el.value), end)
         IN  [kind |-> "ok", n |-> read.n, heap |-> copy.heap,
              el |-> [read.el EXCEPT !.value = copy.view]]

\* fromBytes (bytes) on an element and a buffer of the heap
fromBytesOn(heap, this, bytesView) ==
    fromBytesValue(heap, this, bytesView,
                   fromBytes(Deref(heap, this), Contents(heap, bytesView)),
                   valueEnd(Contents(heap, bytesView),
                            fromBytes(Deref(heap, this), Contents(heap, bytesView))))

RECURSIVE sequenceLoopOn(_, _, _, _), sequencePush(_, _, _, _)

\* encodedElements.push(next) and the rest of the loop: next is what
\* fromBytes has made of the new element
sequencePush(this, i, encodedElements, next) ==
    IF next.kind # "ok"
    THEN [kind |-> next.kind, heap |-> next.heap, els |-> << >>]
    ELSE sequenceLoopOn(next.heap, this, i + next.n, Append(encodedElements, next.el))

\* next.fromBytes(rest), rest being this.value.slice(i)
sequenceNext(this, i, encodedElements, rest) ==
    sequencePush(this, i, encodedElements,
                 fromBytesOn(rest.heap, NewElementOn, rest.view))

\* the while loop of get sequence, from offset i
sequenceLoopOn(heap, this, i, encodedElements) ==
    IF i < this.value.length
    THEN sequenceNext(this, i, encodedElements,
                      slice(heap, this.value, i, this.value.length))
    ELSE [kind |-> "ok", heap |-> heap, els |-> encodedElements]

\* get sequence () on an element of the heap
getSequenceOn(heap, this) ==
    IF this.construction # constructed
    THEN [kind |-> "ConstructionError", heap |-> heap, els |-> << >>]
    ELSE IF this.value.length = 0
    THEN [kind |-> "ok", heap |-> heap, els |-> << >>]
    ELSE sequenceLoopOn(heap, this, 0, << >>)

\* the buffer handed to fromBytes is the second of the heap
InputView == [buffer |-> 2, offset |-> 0, length |-> Len(bytes[2])]

\* elem.fromBytes(bytes)
CallFromBytesOn ==
    /\ pc = "input"
    /\ LET r == fromBytesOn(bytes, elem, InputView)
       IN  /\ elem' = r.el
           /\ bytes' = r.heap
           /\ ret' = [kind |-> r.kind, n |-> r.n, maxIndex |-> -1]
    /\ pc' = "held"
    /\ UNCHANGED <<fresh, children, got, length, lengthOctets,
                   lengthEncodingPreference, input, output, runtime>>

\* bytes[i] = octet, after fromBytes
CallWriteInput ==
    /\ pc = "held"
    /\ \E i \in 0..(Len(bytes[2]) - 1) : \E octet \in {0, 255} :
          bytes' = WriteOctet(bytes, InputView, i, octet)
    /\ pc' = "written"
    /\ UNCHANGED <<elem, fresh, ret, children, got, length, lengthOctets,
                   lengthEncodingPreference, input, output, runtime>>

\* got = elem.sequence
CallGetSequenceOn ==
    /\ pc = "held"
    /\ LET r == getSequenceOn(bytes, elem)
       IN  /\ got' = r.els
           /\ bytes' = r.heap
           /\ ret' = [kind |-> r.kind, n |-> 0, maxIndex |-> -1]
    /\ pc' = "children"
    /\ UNCHANGED <<elem, fresh, children, length, lengthOctets,
                   lengthEncodingPreference, input, output, runtime>>

\* got[k].value[i] = octet
CallWriteChild ==
    /\ pc = "children"
    /\ \E k \in 1..Len(got) : \E i \in 0..(got[k].value.length - 1) :
          \E octet \in {0, 255} :
              bytes' = WriteOctet(bytes, got[k].value, i, octet)
    /\ pc' = "mutated"
    /\ UNCHANGED <<elem, fresh, ret, children, got, length, lengthOctets,
                   lengthEncodingPreference, input, output, runtime>>

\* got[k].tagClass = private, got[k].tagNumber = 5 or got[k].construction =
\* the other one: the elements of got are objects made in the getter
CallAssignChild ==
    /\ pc = "children"
    /\ \E k \in 1..Len(got) :
          \/ got' = [got EXCEPT ![k].tagClass = private]
          \/ got' = [got EXCEPT ![k].tagNumber = ASN1UniversalType.nill]
          \/ got' = [got EXCEPT ![k].construction = 1 - got[k].construction]
    /\ pc' = "mutated"
    /\ UNCHANGED <<elem, bytes, fresh, ret, children, length, lengthOctets,
                   lengthEncodingPreference, input, output, runtime>>

\* output = elem.sequence, after the mutation
CallGetSequenceAgain ==
    /\ pc = "mutated"
    /\ LET r == getSequenceOn(bytes, elem)
       IN  /\ output' = [k \in 1..Len(r.els) |-> Deref(r.heap, r.els[k])]
           /\ bytes' = r.heap
           /\ ret' = [kind |-> r.kind, n |-> 0, maxIndex |-> -1]
    /\ pc' = "again"
    /\ UNCHANGED <<elem, fresh, children, got, length, lengthOctets,
                   lengthEncodingPreference, input, runtime>>
----------------------------------------------------------------------------
(* Ownership: a parent is parsed from the encoding of a SEQUENCE of input,  *)
(* then the input buffer is written to, or the children are read, one is    *)
(* mutated and the children are read again                                  *)

\* the parent of a list of elements
Parent(list) ==
    setSequence([NewBERElement EXCEPT !.tagNumber = ASN1UniversalType.sequence],
                list, definite)

\* the elements of the parent: those of InnerChildren that fromBytes reads
OwnedChildren == {c \in InnerChildren : c.tagNumber # LongFormFloor}

InitOwnership ==
    /\ pc = "input"
    /\ input \in UNION {[1..n -> OwnedChildren] : n \in 0..MaxChildren}
    /\ bytes = << << >>, toBytes(Parent(input), definite) >>
    /\ elem = NewElementOn
    /\ fresh = NewBERElement
    /\ ret = NoRet
    /\ children = << >>
    /\ got = << >>
    /\ length = 0
    /\ lengthOctets = << >>
    /\ lengthEncodingPreference = definite
    /\ output = << >>
    /\ runtime = "TextEncoder"

NextOwnership ==
    \/ CallFromBytesOn
    \/ CallWriteInput
    \/ CallGetSequenceOn
    \/ CallWriteChild
    \/ CallAssignChild
    \/ CallGetSequenceAgain

SpecOwnership == InitOwnership /\ [][NextOwnership]_vars

\* the elements of a list are equal to those of another, one by one
SameElements(a, b) ==
    /\ Len(a) = Len(b)
    /\ \A k \in 1..Len(a) : SameElement(a[k], b[k])

\* C24: the children the sequence getter returns are copies: after a
\* mutation of a returned child (an octet of its value, its tag class, tag
\* number or construction) the parent's tag class, construction, tag number
\* and value octets are what they were and the sequence getter returns
\* children equal to the original ones; fromBytes copies the value out of
\* the input buffer, so that a later write to the buffer leaves the element
\* as it was
C24_Copies ==
    /\ pc \in {"written", "mutated", "again"}
          => SameElement(Deref(bytes, elem), Parent(input))
    /\ pc = "again"
          => (ret.kind = "ok" /\ SameElements(output, input))

\* an octet of the value of a returned child has been changed and the
\* children read again
C24_Witness ==
    /\ pc = "again"
    /\ \E k \in 1..Len(got) :
          /\ got[k].value.length > 0
          /\ Contents(bytes, got[k].value) # input[k].value
----------------------------------------------------------------------------
(* The loops that parse children, one iteration at a time: the while loop   *)
(* of the sequence getter over elem.value, with length as its offset i and  *)
(* got as encodedElements, and the while loop of fromBytes over the         *)
(* children of an indefinite-length element of bytes, on the element fresh, *)
(* with length as sentinel. output names the operation under way.           *)

\* fromBytes gets as far as the loop over the children
entersScan(this, buf) ==
    /\ Len(buf) >= 2
    /\ (this.recursionCount + 1) <= nestingRecursionLimit
    /\ fromBytesIdentifier(this, buf).kind = "ok"
    /\ buf[fromBytesIdentifier(this, buf).cursor + 1] = 128
    /\ fromBytesIdentifier(this, buf).el.construction = constructed

\* mutant of advance: the offset is left where it was
stay(offset, read) == offset

\* sentinel += child.fromBytes(...), i += next.fromBytes(...)
advance(offset, read) == offset + read

\* fresh.fromBytes(bytes), up to the loop over the children or, on the other
\* paths, to its end
EnterFromBytes ==
    /\ pc = "start"
    /\ output' = "fromBytes"
    /\ IF entersScan(fresh, bytes)
       THEN /\ fresh' = fromBytesIdentifier(fresh, bytes).el
            /\ length' = fromBytesIdentifier(fresh, bytes).cursor + 1
            /\ pc' = "scan"
            /\ ret' = ret
       ELSE /\ fresh' = fromBytes(fresh, bytes).el
            /\ ret' = [kind |-> fromBytes(fresh, bytes).kind,
                       n |-> fromBytes(fresh, bytes).n, maxIndex |-> -1]
            /\ pc' = IF fromBytes(fresh, bytes).kind = "ok" THEN "returned" ELSE "raised"
            /\ length' = length
    /\ UNCHANGED <<elem, bytes, children, got, lengthOctets,
                   lengthEncodingPreference, input, runtime>>

\* the state after child.fromBytes in the loop over the children: child is
\* what fromBytes made of the octets from sentinel on
ScanStep(child) ==
    IF child.kind # "ok"
    THEN /\ pc' = "raised"
         /\ ret' = [kind |-> child.kind, n |-> 0, maxIndex |-> -1]
         /\ length' = length
    ELSE /\ pc' = IF IsEndOfContent(child.el) THEN "scanned" ELSE "scan"
         /\ ret' = ret
         /\ length' = advance(length, child.n)

\* one iteration of the loop over the children
StepScan ==
    /\ pc = "scan"
    /\ length < Len(bytes)
    /\ ScanStep(fromBytes([NewBERElement EXCEPT !.recursionCount = fresh.recursionCount + 1],
                          Slice(bytes, length, Len(bytes))))
    /\ UNCHANGED <<elem, bytes, fresh, children, got, lengthOctets,
                   lengthEncodingPreference, input, output, runtime>>

\* the loop over the children ends at the end of bytes
LeaveScan ==
    /\ pc = "scan"
    /\ ~(length < Len(bytes))
    /\ pc' = "scanned"
    /\ UNCHANGED <<elem, bytes, fresh, ret, children, got, length, lengthOctets,
                   lengthEncodingPreference, input, output, runtime>>

\* the lines of fromBytes after the loop over the children
FinishScan ==
    /\ pc = "scanned"
    /\ IF noEndOfContent(bytes, length)
       THEN /\ pc' = "raised"
            /\ ret' = [kind |-> "TruncationError", n |-> 0, maxIndex |-> -1]
            /\ fresh' = fresh
       ELSE /\ pc' = "returned"
            /\ ret' = [kind |-> "ok", n |-> length, maxIndex |-> -1]
            /\ fresh' = [fresh EXCEPT !.value =
                            Slice(bytes, fromBytesIdentifier(NewBERElement, bytes).cursor + 1,
                                  length - 2)]
    /\ UNCHANGED <<elem, bytes, children, got, length, lengthOctets,
                   lengthEncodingPreference, input, output, runtime>>

\* elem.sequence, up to its loop
EnterSequence ==
    /\ pc = "start"
    /\ output' = "sequence"
    /\ IF elem.construction # constructed
       THEN /\ pc' = "raised"
            /\ ret' = [kind |-> "ConstructionError", n |-> 0, maxIndex |-> -1]
       ELSE IF Len(elem.value) = 0
       THEN /\ pc' = "returned"
            /\ ret' = [kind |-> "ok", n |-> 0, maxIndex |-> -1]
       ELSE /\ pc' = "sequenceLoop"
            /\ ret' = ret
    /\ UNCHANGED <<elem, bytes, fresh, children, got, length, lengthOctets,
                   lengthEncodingPreference, input, runtime>>

\* the state after next.fromBytes in the loop of the sequence getter
SequenceStep(next) ==
    IF next.kind # "ok"
    THEN /\ pc' = "raised"
         /\ ret' = [kind |-> next.kind, n |-> 0, maxIndex |-> -1]
         /\ UNCHANGED <<length, got>>
    ELSE /\ pc' = "sequenceLoop"
         /\ ret' = ret
         /\ got' = Append(got, next.el)
         /\ length' = advance(length, next.n)

\* one iteration of the loop of the sequence getter
StepSequence ==
    /\ pc = "sequenceLoop"
    /\ length < Len(elem.value)
    /\ SequenceStep(fromBytes(NewBERElement, Slice(elem.value, length, Len(elem.value))))
    /\ UNCHANGED <<elem, bytes, fresh, children, lengthOctets,
                   lengthEncodingPreference, input, output, runtime>>

\* the loop of the sequence getter ends and the getter returns
LeaveSequence ==
    /\ pc = "sequenceLoop"
    /\ ~(length < Len(elem.value))
    /\ pc' = "returned"
    /\ ret' = [kind |-> "ok", n |-> 0, maxIndex |-> -1]
    /\ UNCHANGED <<elem, bytes, fresh, children, got, length, lengthOctets,
                   lengthEncodingPreference, input, output, runtime>>

\* the state after elem.deconstruct(): deconstructed is what it returned
\* or threw
Deconstructed(deconstructed) ==
    /\ pc' = IF deconstructed.kind = "ok" THEN "returned" ELSE "raised"
    /\ ret' = [kind |-> deconstructed.kind, n |-> 0, maxIndex |-> -1]
    /\ children' = deconstructed.value

\* elem.deconstruct(), whole
CallDeconstruct ==
    /\ pc = "start"
    /\ output' = "deconstruct"
    /\ Deconstructed(deconstruct(elem))
    /\ UNCHANGED <<elem, bytes, fresh, got, length, lengthOctets,
                   lengthEncodingPreference, input, runtime>>
----------------------------------------------------------------------------
(* Decoding to the end: the indefinite-length encoding of an element of     *)
(* primitive children, or all of it but its last octets, is handed to       *)
(* fromBytes, and                                                           *)
(* the octets after its first two are the value of the element whose        *)
(* sequence and deconstruct are read                                        *)

\* most octets taken off the end of the encoding
MaxCut == 3

\* the children of the elements parsed: the primitive fragments and the
\* end-of-contents element
ParsedChildren == LeafFragments \cup {Leaf(universal, endOfContent, << >>)}

\* the trees whose encodings are parsed
ParsedTrees ==
    {Node(universal, ASN1UniversalType.octetString, kids) :
        kids \in UNION {[1..m -> ParsedChildren] : m \in 0..MaxFragments}}

InitLoops ==
    /\ pc = "start"
    /\ input \in ParsedTrees
    /\ \E cut \in 0..MaxCut :
          bytes = SubSeq(IndefiniteBytes(input), 1, Len(IndefiniteBytes(input)) - cut)
    /\ \E construction \in {primitive, constructed} :
          elem = [NewBERElement EXCEPT !.construction = construction,
                                       !.tagNumber = ASN1UniversalType.octetString,
                                       !.value = Slice(bytes, 2, Len(bytes))]
    /\ fresh = NewBERElement
    /\ ret = NoRet
    /\ children = << >>
    /\ got = << >>
    /\ length = 0
    /\ lengthOctets = << >>
    /\ lengthEncodingPreference = definite
    /\ output = "none"
    /\ runtime = "TextEncoder"

NextLoops ==
    \/ EnterSequence
    \/ EnterFromBytes
    \/ StepScan
    \/ LeaveScan
    \/ FinishScan
    \/ StepSequence
    \/ LeaveSequence
    \/ CallDeconstruct

\* the interpreter runs the operation it has entered to its end
SpecLoops == InitLoops /\ [][NextLoops]_vars /\ WF_vars(NextLoops)

\* an operation has returned or raised
Done == pc \in {"returned", "raised"}

\* an iteration of one of the two loops has read a child
Iterated ==
    /\ pc \in {"scan", "sequenceLoop"}
    /\ pc' \in {"scan", "scanned", "sequenceLoop"}
    /\ length < Len(IF pc = "scan" THEN bytes ELSE elem.value)

\* what the operation, taken whole, returns or throws
Whole ==
    CASE output = "fromBytes" ->
             /\ ret.kind = fromBytes(NewBERElement, bytes).kind
             /\ ret.n = fromBytes(NewBERElement, bytes).n
             /\ fresh = fromBytes(NewBERElement, bytes).el
      [] output = "sequence" ->
             /\ ret.kind = getSequence(elem).kind
             /\ ret.kind = "ok" => got = getSequence(elem).els
      [] output = "deconstruct" ->
             /\ ret.kind = deconstruct(elem).kind
             /\ children = deconstruct(elem).value

\* C25: every decoding operation is total: fromBytes, the sequence getter
\* and deconstruct come to an end, returning or raising one of the errors,
\* with the result of the operation taken whole, and every iteration of the
\* two loops that parse children (the sequence getter's, the scan of an
\* indefinite-length value) that does not raise moves its offset on by at
\* least 2 octets
C25_Total ==
    /\ <>Done
    /\ [](Done => (ret.kind # "none" /\ Whole))
    /\ [][Iterated => length' >= length + 2]_vars

\* the scan of an indefinite-length value has ended after more than one
\* iteration, at the end-of-contents octets, and fromBytes has returned
C25_Witness ==
    /\ pc = "returned"
    /\ output = "fromBytes"
    /\ entersScan(NewBERElement, bytes)
    /\ ret.n > fromBytesIdentifier(NewBERElement, bytes).cursor + 1 + 2
----------------------------------------------------------------------------
(* The typed setters of BERElement *)

\* set octetString (value)
setOctetString(this, value) == [this EXCEPT !.value = value]

\* a | bit, bit being one bit
BitOr(a, bit) == IF (a \div bit) % 2 = 1 THEN a ELSE a + bit

\* the for loop of set bitString over the bits from i on: pre is an array
\* with holes, here zeros, that new Uint8Array(pre) turns into zeros
RECURSIVE setBits(_, _, _)
setBits(value, i, pre) ==
    IF i >= Len(value)
    THEN pre
    ELSE IF value[i + 1] = FALSE
    THEN setBits(value, i + 1, pre)
    ELSE setBits(value, i + 1,
                 [pre EXCEPT ![(i \div 8) + 1 + 1] = BitOr(@, 128 \div Pow2(i % 8))])

\* mutant of unusedBits: the count 8 of a whole number of octets is kept
unusedBitsOfEight(n) == 8 - (n % 8)

\* pre[0] = (8 - (value.length % 8)); if (pre[0] === 8) pre[0] = 0
unusedBits(n) == IF 8 - (n % 8) = 8 THEN 0 ELSE 8 - (n % 8)

\* set bitString (value): the assignment of the empty value on an empty
\* array is followed by the rest of the setter
setBitString(this, value) ==
    LET size == (Len(value) \div 8) + (IF Len(value) % 8 # 0 THEN 1 ELSE 0) + 1
        pre == setBits(value, 0, [k \in 1..size |-> 0])
    IN  [this EXCEPT !.value = [pre EXCEPT ![1] = unusedBits(Len(value))]]

\* elem.octetString = input.octets
CallSetOctetString ==
    /\ pc = "built"
    /\ input.type = "Uint8Array"
    /\ elem' = setOctetString(elem, input.octets)
    /\ pc' = "stored"
    /\ UNCHANGED <<bytes, fresh, ret, children, got, length, lengthOctets,
                   lengthEncodingPreference, input, output, runtime>>

\* elem.bitString = input.bits
CallSetBitString ==
    /\ pc = "built"
    /\ input.type = "bits"
    /\ elem' = setBitString(elem, input.bits)
    /\ pc' = "stored"
    /\ UNCHANGED <<bytes, fresh, ret, children, got, length, lengthOctets,
                   lengthEncodingPreference, input, output, runtime>>

\* the octets of the special REAL values
ASN1SpecialRealValue ==
    [plusInfinity |-> 64, minusInfinity |-> 65, notANumber |-> 66, minusZero |-> 67]

\* a === b on two numbers, each one of zero, minusZero, plusInfinity,
\* minusInfinity and notANumber: NaN equals nothing and the two zeros are
\* equal
StrictEquals(a, b) ==
    /\ a # "notANumber"
    /\ b # "notANumber"
    /\ (a = b \/ {a, b} = {"zero", "minusZero"})

\* set real (value), for the numbers that are not encoded as text
setReal(this, value) ==
    IF StrictEquals(value, "zero")
    THEN [this EXCEPT !.value = << >>]
    ELSE IF value = "notANumber"
    THEN [this EXCEPT !.value = <<ASN1SpecialRealValue.notANumber>>]
    ELSE IF StrictEquals(value, "minusZero")
    THEN [this EXCEPT !.value = <<ASN1SpecialRealValue.minusZero>>]
    ELSE IF StrictEquals(value, "plusInfinity")
    THEN [this EXCEPT !.value = <<ASN1SpecialRealValue.plusInfinity>>]
    ELSE [this EXCEPT !.value = <<ASN1SpecialRealValue.minusInfinity>>]

\* get real (), for the empty value and the values whose first octet is
\* 01xxxxxx
getReal(this) ==
    IF this.construction # primitive
    THEN Fail("ConstructionError")
    ELSE IF Len(this.value) = 0
    THEN Value("zero")
    ELSE IF this.value[1] = ASN1SpecialRealValue.notANumber
    THEN Value("notANumber")
    ELSE IF this.value[1] = ASN1SpecialRealValue.minusZero
    THEN Value("minusZero")
    ELSE IF this.value[1] = ASN1SpecialRealValue.plusInfinity
    THEN Value("plusInfinity")
    ELSE IF this.value[1] = ASN1SpecialRealValue.minusInfinity
    THEN Value("minusInfinity")
    ELSE Fail("UndefinedError")

\* elem.real = input.number
CallSetReal ==
    /\ pc = "built"
    /\ input.type = "number"
    /\ elem' = setReal(elem, input.number)
    /\ pc' = "stored"
    /\ UNCHANGED <<bytes, fresh, ret, children, got, length, lengthOctets,
                   lengthEncodingPreference, input, output, runtime>>

\* output = elem.real
CallGetReal ==
    /\ pc \in {"built", "stored"}
    /\ Len(elem.value) > 0 => elem.value[1] \div 64 = 1
    /\ LET r == getReal(elem)
       IN  /\ output' = r.value
           /\ ret' = [kind |-> r.kind, n |-> 0, maxIndex |-> -1]
    /\ pc' = IF pc = "built" THEN "real" ELSE "realStored"
    /\ UNCHANGED <<elem, bytes, fresh, children, got, length, lengthOctets,
                   lengthEncodingPreference, input, runtime>>

\* the characters of printableStringCharacters: the letters, the digits,
\* the space and '()+,-./:=?
printableStringCharacters ==
    (65..90) \cup (97..122) \cup (48..57)
    \cup {32, 39, 40, 41, 43, 44, 45, 46, 47, 58, 61, 63}

\* the test a string setter makes on a character code: true when the
\* setter throws
badCharacter(type, characterCode) ==
    CASE type = "numericString" ->
             ~((characterCode >= 48 /\ characterCode <= 57) \/ characterCode = 32)
      [] type = "printableString" -> characterCode \notin printableStringCharacters
      [] type = "graphicString" -> characterCode < 32 \/ characterCode > 126
      [] type = "generalString" -> characterCode > 127

\* mutant of keepValue: the value is emptied before the characters are
\* tested
clearValue(this) == [this EXCEPT !.value = << >>]

\* the element a string setter leaves when it throws
keepValue(this) == this

\* set numericString, printableString, graphicString and generalString
\* (value), value being a string of characters below 128: its octets under
\* both globals are its character codes
setString(this, type, value) ==
    IF \E i \in 1..Len(value) : badCharacter(type, value[i])
    THEN [kind |-> "CharactersError", el |-> keepValue(this)]
    ELSE [kind |-> "ok", el |-> [this EXCEPT !.value = value]]

\* elem[type] = input.text for one of the four string types
CallSetString ==
    /\ pc = "built"
    /\ input.type = "string"
    /\ \E type \in {"numericString", "printableString", "graphicString", "generalString"} :
          /\ elem' = setString(elem, type, input.text).el
          /\ ret' = [kind |-> setString(elem, type, input.text).kind,
                     n |-> 0, maxIndex |-> -1]
          /\ output' = type
    /\ pc' = "stored"
    /\ UNCHANGED <<bytes, fresh, children, got, length, lengthOctets,
                   lengthEncodingPreference, input, runtime>>

\* elem.fromBytes(bytes) on an element that holds a value
CallFromBytesOver ==
    /\ pc = "built"
    /\ input.type = "none"
    /\ elem' = fromBytes(elem, bytes).el
    /\ ret' = [kind |-> fromBytes(elem, bytes).kind, n |-> fromBytes(elem, bytes).n,
               maxIndex |-> -1]
    /\ pc' = "parsed"
    /\ UNCHANGED <<bytes, fresh, children, got, length, lengthOctets,
                   lengthEncodingPreference, input, output, runtime>>
----------------------------------------------------------------------------
(* Setters and getters: an element that earlier operations have left        *)
(* primitive or constructed is given a typed value and read back, or it      *)
(* holds value octets that no setter wrote and is read, or parses a buffer;  *)
(* fresh is the element as it was before                                     *)

\* longest array of bits handed to the bitString setter
MaxBits == 9

\* longest string handed to a string setter
MaxTextLen == 2

\* the elements earlier operations have left: a new one, one whose value
\* has been assigned, one whose sequence has been set, one that has parsed
\* the encoding of a SEQUENCE and one whose boolean has been set
EarlierElements ==
    {NewBERElement,
     [NewBERElement EXCEPT !.value = <<1, 2>>],
     setSequence(NewBERElement,
                 <<[NewBERElement EXCEPT !.tagNumber = ASN1UniversalType.octetString]>>,
                 definite),
     fromBytes(NewBERElement, <<48, 2, 4, 0>>).el,
     setBoolean(NewBERElement, TRUE)}

\* the character codes of the strings: a control character, the space, *,
\* 0, A, ~, DEL and a character past ASCII
TextCharacters == {31, 32, 42, 48, 65, 126, 127, 128}

\* the values handed to the setters
SetterInputs ==
    {[type |-> "bits", bits |-> b] :
        b \in UNION {[1..n -> BOOLEAN] : n \in 0..MaxBits}}
    \cup {[type |-> "number", number |-> n] :
            n \in {"zero", "minusZero", "plusInfinity", "minusInfinity", "notANumber"}}
    \cup {[type |-> "Uint8Array", octets |-> v] : v \in ShortValues}
    \cup {[type |-> "boolean", boolean |-> b] : b \in BOOLEAN}
    \cup {[type |-> "string", text |-> t] :
            t \in UNION {[1..n -> TextCharacters] : n \in 0..MaxTextLen}}

\* value octets no setter wrote: of bit strings with a first octet that is
\* not a count of unused bits, or with nothing after a count that is not 0,
\* and every octet 01xxxxxx
RawValues ==
    {<<8>>, <<1>>, <<8, 0>>, <<255, 255>>, <<7, 128>>, <<0>>}
    \cup {<<octet>> : octet \in 64..127}

\* buffers fromBytes fails on, after it has assigned the tag or nothing,
\* and buffers it reads
ParsedBuffers ==
    {<<159>>, <<36, 5, 0>>, <<255, 128>>, <<95, 129>>, <<36, 128, 4, 0>>,
     <<164, 132, 0, 0, 0, 0>>, <<4, 1, 9>>, <<36, 128, 0, 0>>}

InitSetters ==
    /\ pc = "built"
    /\ \/ /\ input \in SetterInputs
          /\ elem \in EarlierElements
          /\ bytes = << >>
       \/ /\ input = [type |-> "none"]
          /\ elem \in EarlierElements
                 \cup {[NewBERElement EXCEPT !.value = v] : v \in RawValues}
          /\ bytes \in ParsedBuffers
    /\ fresh = elem
    /\ ret = NoRet
    /\ children = << >>
    /\ got = << >>
    /\ length = 0
    /\ lengthOctets = << >>
    /\ lengthEncodingPreference = definite
    /\ output = << >>
    /\ runtime \in {"TextEncoder", "Buffer"}

NextSetters ==
    \/ CallSetOctetString
    \/ CallSetBitString
    \/ CallSetReal
    \/ CallSetBoolean
    \/ CallSetString
    \/ CallFromBytesOver
    \/ CallGetOctetString
    \/ CallGetBitString
    \/ CallGetReal
    \/ CallGetBoolean

SpecSetters == InitSetters /\ [][NextSetters]_vars

\* bit j of an octet, 0 being the most significant
BitAt(octet, j) == (octet \div Pow2(7 - j)) % 2 = 1

\* the value is the bit string b: the count of unused bits, then the bits,
\* most significant first, the last octet padded with zeros
EncodesBits(value, b) ==
    /\ Len(value) = 1 + ((Len(b) + 7) \div 8)
    /\ value[1] = (8 - (Len(b) % 8)) % 8
    /\ \A i \in 0..(8 * (Len(value) - 1) - 1) :
          BitAt(value[(i \div 8) + 2], i % 8) = (i < Len(b) /\ b[i + 1])

\* C26: the bitString setter stores 1 + ceil(|b|/8) octets, the first the
\* count (8 - |b| mod 8) mod 8 of unused bits, then the bits, most
\* significant first and padded with zeros; on a primitive element the
\* getter returns b; the empty array is stored as the one octet 0x00; the
\* getter fails on a primitive value whose first octet is above 7 or whose
\* only octet is not zero
C26_BitString ==
    /\ (pc = "stored" /\ input.type = "bits")
          => /\ EncodesBits(elem.value, input.bits)
             /\ input.bits = << >> => elem.value = <<0>>
    /\ (pc = "bitsStored" /\ input.type = "bits" /\ elem.construction = primitive)
          => (ret.kind = "ok" /\ output = input.bits)
    /\ (/\ pc = "bits"
        /\ elem.construction = primitive
        /\ Len(elem.value) > 0
        /\ (elem.value[1] > 7 \/ (Len(elem.value) = 1 /\ elem.value[1] # 0)))
          => ret.kind # "ok"

\* eight bits, the last of them set, have been stored in two octets and
\* read back
C26_Witness ==
    /\ pc = "bitsStored"
    /\ input.type = "bits"
    /\ Len(input.bits) = 8
    /\ input.bits[8]
    /\ elem.construction = primitive
    /\ elem.value = <<0, 1>>
    /\ output = input.bits

\* the value octets the five special numbers are to be stored as
SpecialRealOctets ==
    [zero |-> << >>, plusInfinity |-> <<64>>, minusInfinity |-> <<65>>,
     notANumber |-> <<66>>, minusZero |-> <<67>>]

\* C27: the real setter stores zero as the empty value, plus infinity as
\* 0x40, minus infinity as 0x41, NaN as 0x42 and minus zero as 0x43, so
\* that no two of them share an encoding; on a primitive element the getter
\* returns the number that was set; the getter fails with UndefinedError on
\* any other first octet 01xxxxxx
C27_SpecialReals ==
    /\ (pc = "stored" /\ input.type = "number")
          => elem.value = SpecialRealOctets[input.number]
    /\ (pc = "realStored" /\ input.type = "number" /\ elem.construction = primitive)
          => (ret.kind = "ok" /\ output = input.number)
    /\ (/\ pc = "real"
        /\ elem.construction = primitive
        /\ Len(elem.value) > 0
        /\ elem.value[1] \notin 64..67)
          => ret.kind = "UndefinedError"

\* C27, for the numbers other than minus zero: they are stored as C27 says
\* and read back, and the getter fails with UndefinedError on any other
\* first octet 01xxxxxx
C27_SpecialRealsButMinusZero ==
    /\ (pc = "stored" /\ input.type = "number" /\ input.number # "minusZero")
          => elem.value = SpecialRealOctets[input.number]
    /\ (/\ pc = "realStored"
        /\ input.type = "number"
        /\ input.number # "minusZero"
        /\ elem.construction = primitive)
          => (ret.kind = "ok" /\ output = input.number)
    /\ (/\ pc = "real"
        /\ elem.construction = primitive
        /\ Len(elem.value) > 0
        /\ elem.value[1] \notin 64..67)
          => ret.kind = "UndefinedError"

\* C29: on an element that earlier operations have left in any state, a
\* typed setter followed by the getter of the same type returns the value
\* set: the octets for octetString, the boolean for boolean
C29_SetThenGet ==
    /\ (pc = "octetsStored" /\ input.type = "Uint8Array")
          => (ret.kind = "ok" /\ output = input.octets)
    /\ (pc = "booleanStored" /\ input.type = "boolean")
          => (ret.kind = "ok" /\ output = input.boolean)

\* C29, on an element that earlier operations have left primitive
C29_SetThenGetPrimitive ==
    /\ (pc = "octetsStored" /\ input.type = "Uint8Array"
                            /\ fresh.construction = primitive)
          => (ret.kind = "ok" /\ output = input.octets)
    /\ (pc = "booleanStored" /\ input.type = "boolean"
                             /\ fresh.construction = primitive)
          => (ret.kind = "ok" /\ output = input.boolean)

\* C30: when fromBytes raises, the value octets of the element are those it
\* held before, whatever has become of its tag class, construction and tag
\* number; when the numericString, printableString, graphicString or
\* generalString setter raises CharactersError, the value, the construction
\* and the tag of the element are those it held before
C30_FailureKeepsValue ==
    /\ (pc = "parsed" /\ ret.kind # "ok") => elem.value = fresh.value
    /\ (pc = "stored" /\ input.type = "string" /\ ret.kind = "CharactersError")
          => elem = fresh

\* fromBytes has raised after it overwrote the tag of an element that held
\* a value, and a string setter has raised on an element that held a value
C30_Witness ==
    \/ /\ pc = "parsed"
       /\ ret.kind = "TruncationError"
       /\ elem.tagNumber # fresh.tagNumber
       /\ elem.construction # fresh.construction
       /\ Len(fresh.value) > 0
    \/ /\ pc = "stored"
       /\ input.type = "string"
       /\ ret.kind = "CharactersError"
       /\ Len(fresh.value) > 0

\* every fragment of a constructed element is a bit string of its own: a
\* first octet that is a count of unused bits, zero on all but the last
WellFormedFragments(fragments) ==
    /\ fragments.kind = "ok"
    /\ \A k \in 1..Len(fragments.els) :
          /\ Len(fragments.els[k].value) > 0
          /\ fragments.els[k].value[1] <= 7
          /\ k < Len(fragments.els) => fragments.els[k].value[1] = 0

\* what C28 says of the arrays of bits in Among
C28_Body(Among) ==
    /\ (pc = "bitsDefragmented" /\ input.bits \in Among)
          => (ret.kind = "ok" /\ output = input.bits)
    /\ (/\ pc \in {"bitsFragmented", "bitsDefragmented"}
        /\ input.bits \in Among
        /\ elem.construction = constructed)
          => WellFormedFragments(getSequence(elem))

\* C28: under the canonical rules the bitString getter returns, for every
\* array of bits b, those whose encoding is longer than 1000 octets
\* included, the b that the bitString setter was given, and every fragment
\* the setter made is a bit string of its own, its first octet a count of
\* unused bits that is zero on all but the last fragment
C28_CerBitString == C28_Body(BitArrays)

\* C28, for the arrays of bits whose encoding is at most FragmentSize octets
C28_CerBitStringUnfragmented ==
    C28_Body({b \in BitArrays : Len(b) <= 8 * (FragmentSize - 1)})

====
